---- MODULE Spec2Model ----
(***************************************************************************)
(* Convex-hull graph servers of OrBibi/ConvexHull.                         *)
(*                                                                         *)
(*   Spec         the reactor server of part6 (one loop thread calls       *)
(*                handle_listener / handle_client; part4's select loop     *)
(*                has the same handlers inline)                            *)
(*   SpecStream   the same server, one connection, byte-wise delivery,     *)
(*                with the history of bytes, lines and responses           *)
(*   SpecWorkers  the thread-per-connection server of part7 (and the       *)
(*                proactor variant), graph_mutex and all                   *)
(*                                                                         *)
(* A std::string is a sequence of one-character strings.  A coordinate is  *)
(* kept in tenths (the text "1" is 10, "2.5" is 25), so that the double    *)
(* values the inputs denote are compared and multiplied exactly.           *)
(***************************************************************************)
EXTENDS Integers, Sequences, FiniteSets, TLC

VARIABLES
    point_set,          \* std::deque<Point> point_set
    temp_points,        \* std::deque<Point> temp_points
    waiting_for_graph,  \* bool waiting_for_graph
    points_to_read,     \* int points_to_read
    newgraph_owner_fd,  \* int newgraph_owner_fd
    clients,            \* std::unordered_map<int, ClientState>: fd -> inbuf
    handlers,           \* Reactor::handlers: the client descriptors registered
    cur,                \* descriptor whose handle_client call is in its line loop, 0 if none
    peer,               \* per descriptor: "free", "open", or "eof" (peer closed, not yet read)
    net,                \* per descriptor: bytes sent by the peer and not yet read by recv
    ev,                 \* what the step just taken passed to send: fd and response
    thr,                \* per thread of the worker server: pc, fd and the line in hand
    graph_mutex,        \* std::mutex graph_mutex: the thread holding it, 0 if free
    sess,               \* per connection, what its peer was told: the upload it was granted
    sent,               \* lines the peers of the worker server have written (history)
    rcvd,               \* one connection: what the reads have returned so far (history)
    lines,              \* one connection: every line handed to process_line (history)
    out,                \* one connection: every response passed to send (history)
    before,             \* the shared state the line just answered was met with (history)
    hull                \* what the last call of compute_convex_hull_deque returned (history)

shared == <<point_set, temp_points, waiting_for_graph, points_to_read, newgraph_owner_fd>>
hist == <<sent, rcvd, lines, out, before, hull>>
vars == <<point_set, temp_points, waiting_for_graph, points_to_read, newgraph_owner_fd,
          clients, handlers, cur, peer, net, ev, thr, graph_mutex, sess, sent, rcvd, lines, out,
          before, hull>>

----------------------------------------------------------------------------
(* Bounds of the model.                                                    *)

\* A Newpoint line is sent only while point_set holds fewer points than this.
MaxPoints == 2
\* Lines the single peer of SpecStream sends in all.
MaxStreamLines == 3
\* Lines the peers of the thread-per-connection server write, all together.
MaxSent == 2

\* Descriptors accept() hands out (the listener is 3); the lowest free one is taken.
Fds == {4, 5}
\* Threads the worker server starts, one per connection accepted.
Threads == {1, 2, 3}

----------------------------------------------------------------------------
(* Characters and strings.                                                 *)

NL == "\n"
CR == "\r"

\* std::isspace in the "C" locale (\v cannot be written in a TLA+ string).
IsSpace(c) == c \in {" ", "\t", "\n", "\r", "\f"}

Digits == <<"0", "1", "2", "3", "4", "5", "6", "7", "8", "9">>
IsDigit(c) == \E i \in 1..10 : Digits[i] = c
DigitVal(c) == (CHOOSE i \in 1..10 : Digits[i] = c) - 1

Tail2(s, k) == SubSeq(s, k, Len(s))   \* s.substr(k-1)

\* The one element of a singleton set.  The {F(v) : v \in {e}} below it is applied
\* to is F(e) with e evaluated once.
The(S) == CHOOSE r \in S : TRUE

\* Index of the first occurrence of c in s, 0 when there is none (std::string::find).
Find(s, c) ==
    IF \E i \in 1..Len(s) : s[i] = c
    THEN CHOOSE i \in 1..Len(s) : s[i] = c /\ \A j \in 1..(i-1) : s[j] # c
    ELSE 0

\* Number of leading characters of s that satisfy isspace.
LeadingSpaces(s) ==
    IF \E i \in 1..Len(s) : ~IsSpace(s[i])
    THEN (CHOOSE i \in 1..Len(s) : ~IsSpace(s[i]) /\ \A j \in 1..(i-1) : IsSpace(s[j])) - 1
    ELSE Len(s)

\* Number of leading digits of s.
LeadingDigits(s) ==
    IF \E i \in 1..Len(s) : ~IsDigit(s[i])
    THEN (CHOOSE i \in 1..Len(s) : ~IsDigit(s[i]) /\ \A j \in 1..(i-1) : IsDigit(s[j])) - 1
    ELSE Len(s)

RECURSIVE DigitsValue(_)
DigitsValue(s) ==
    IF s = <<>> THEN 0
    ELSE 10 * DigitsValue(SubSeq(s, 1, Len(s) - 1)) + DigitVal(s[Len(s)])

\* void trim_crlf(std::string&): pop trailing \n and \r, then erase leading whitespace.
RECURSIVE PopCrLf(_)
PopCrLf(s) ==
    IF s # <<>> /\ s[Len(s)] \in {NL, CR} THEN PopCrLf(SubSeq(s, 1, Len(s) - 1)) ELSE s

\* trim_crlf without the loop that erases leading whitespace.
trim_crlf_tail_only(s) == PopCrLf(s)

trim_crlf(s) == The({Tail2(t, LeadingSpaces(t) + 1) : t \in {PopCrLf(s)}})

\* operator>>(istream&, double&) on the text s: skip whitespace, then an optional
\* sign, digits, an optional point and digits.  ok: a number was read; eof: the
\* extraction reached the end of the text; tenths: its value times ten (the input
\* alphabet has at most one decimal and no exponent).
HasSign(a) == a # <<>> /\ a[1] \in {"+", "-"}
Unsigned(a) == IF HasSign(a) THEN Tail(a) ELSE a
Signed(a, mag) == IF HasSign(a) /\ a[1] = "-" THEN 0 - mag ELSE mag

\* The fraction: c is what follows the integer digits.
Fraction(c) ==
    IF c # <<>> /\ c[1] = "."
    THEN [nf |-> LeadingDigits(Tail(c)), rest |-> Tail2(c, LeadingDigits(Tail(c)) + 2),
          first |-> IF LeadingDigits(Tail(c)) > 0 THEN DigitVal(c[2]) ELSE 0]
    ELSE [nf |-> 0, rest |-> c, first |-> 0]

\* b is the text after the sign, f the fraction found after its digits.
UnsignedDouble(b, f) ==
    [ok  |-> LeadingDigits(b) + f.nf > 0,
     eof |-> f.rest = <<>>,
     mag |-> 10 * DigitsValue(SubSeq(b, 1, LeadingDigits(b))) + f.first]

ReadDouble(s) ==
    The({The({The({[ok |-> u.ok, eof |-> u.eof, tenths |-> Signed(a, u.mag)] :
                      u \in {UnsignedDouble(b, Fraction(Tail2(b, LeadingDigits(b) + 1)))}}) :
                 b \in {Unsigned(a)}}) :
            a \in {Tail2(s, LeadingSpaces(s) + 1)}})

\* bool is_number(const std::string&): (iss >> d) && iss.eof()
is_number(s) == \E r \in {ReadDouble(s)} : r.ok /\ r.eof

\* std::stod on a text is_number accepts.
stod(s) == ReadDouble(s).tenths

\* operator>>(istream&, int&) on the text s: skip whitespace, optional sign, digits;
\* what follows the digits is left unread.
ReadInt(s) ==
    The({The({[ok |-> LeadingDigits(b) > 0,
               n  |-> Signed(a, DigitsValue(SubSeq(b, 1, LeadingDigits(b))))] :
                 b \in {Unsigned(a)}}) :
            a \in {Tail2(s, LeadingSpaces(s) + 1)}})

\* iss >> command: skip whitespace, then the characters up to the next whitespace.
NonSpaceRun(s) ==
    IF \E i \in 1..Len(s) : IsSpace(s[i])
    THEN (CHOOSE i \in 1..Len(s) : IsSpace(s[i]) /\ \A j \in 1..(i-1) : ~IsSpace(s[j])) - 1
    ELSE Len(s)

Command(line) ==
    The({SubSeq(a, 1, NonSpaceRun(a)) : a \in {Tail2(line, LeadingSpaces(line) + 1)}})

\* std::getline(iss, args) after the command, then the leading blanks (' ' only)
\* erased; args is cleared when nothing else is left.
LeadingBlanks(s) ==
    IF \E i \in 1..Len(s) : s[i] # " "
    THEN (CHOOSE i \in 1..Len(s) : s[i] # " " /\ \A j \in 1..(i-1) : s[j] = " ") - 1
    ELSE Len(s)

UpToNL(s) == IF Find(s, NL) = 0 THEN s ELSE SubSeq(s, 1, Find(s, NL) - 1)

Args(line) ==
    The({The({Tail2(g, LeadingBlanks(g) + 1) : g \in {UpToNL(Tail2(a, NonSpaceRun(a) + 1))}}) :
            a \in {Tail2(line, LeadingSpaces(line) + 1)}})

----------------------------------------------------------------------------
(* GeometryUtils: points, hull and area.  Coordinates are in tenths, so    *)
(* cross() and the shoelace sum are in hundredths.                         *)

Point(x, y) == [x |-> x, y |-> y]

\* bool Point::operator<(const Point&) const
PointLess(p, q) == p.x < q.x \/ (p.x = q.x /\ p.y < q.y)

\* static double cross(O, A, B)
cross(O, A, B) == (A.x - O.x) * (B.y - O.y) - (A.y - O.y) * (B.x - O.x)

\* The sort left out: the chains are built over the points as they were given.
keep_input_order(s) == s

\* std::sort(points.begin(), points.end()) with operator<
RECURSIVE InsertSorted(_, _)
InsertSorted(s, p) ==
    IF s = <<>> THEN <<p>>
    ELSE IF PointLess(p, s[1]) THEN <<p>> \o s
    ELSE <<s[1]>> \o InsertSorted(Tail(s), p)

RECURSIVE SortPoints(_)
SortPoints(s) ==
    IF s = <<>> THEN <<>>
    ELSE The({InsertSorted(t, s[1]) : t \in {SortPoints(Tail(s))}})

\* The loop that pops only on a right turn, so that collinear points stay.
RECURSIVE pop_on_right_turn_only(_, _, _)
pop_on_right_turn_only(h, least, p) ==
    IF Len(h) >= least /\ cross(h[Len(h) - 1], h[Len(h)], p) < 0
    THEN pop_on_right_turn_only(SubSeq(h, 1, Len(h) - 1), least, p)
    ELSE h

\* while (hull.size() >= least && cross(hull[size-2], hull.back(), p) <= 0) hull.pop_back();
RECURSIVE PopWhile(_, _, _)
PopWhile(h, least, p) ==
    IF Len(h) >= least /\ cross(h[Len(h) - 1], h[Len(h)], p) <= 0
    THEN PopWhile(SubSeq(h, 1, Len(h) - 1), least, p)
    ELSE h

\* for (i = 0; i < n; ++i) { pop while ...; hull.push_back(points[i]); }
RECURSIVE LowerChain(_, _, _)
LowerChain(pts, i, h0) ==
    IF i > Len(pts) THEN h0
    ELSE The({LowerChain(pts, i + 1, h) : h \in {Append(PopWhile(h0, 2, pts[i]), pts[i])}})

\* for (i = n - 2; i < n; --i) { pop while size >= t ...; push_back; if (i == 0) break; }
\* (i here is the 1-based index)
RECURSIVE UpperChain(_, _, _, _)
UpperChain(pts, i, t, h0) ==
    IF i < 1 THEN h0
    ELSE The({UpperChain(pts, i - 1, t, h) : h \in {Append(PopWhile(h0, t, pts[i]), pts[i])}})

\* The hull without the early return for n <= 1: the chains are built and the
\* last point popped whatever the size.
hull_without_early_return(points) ==
    The({The({The({SubSeq(full, 1, Len(full) - 1) :
                   full \in {UpperChain(pts, Len(pts) - 1, Len(lower) + 1, lower)}}) :
              lower \in {LowerChain(pts, 1, <<>>)}}) :
         pts \in {SortPoints(points)}})

\* std::deque<Point> compute_convex_hull_deque(std::deque<Point> points)
compute_convex_hull_deque(points) ==
    IF Len(points) <= 1 THEN points
    ELSE The({The({The({SubSeq(full, 1, Len(full) - 1) :
                        full \in {UpperChain(pts, Len(pts) - 1, Len(lower) + 1, lower)}}) :
                   lower \in {LowerChain(pts, 1, <<>>)}}) :
              pts \in {SortPoints(points)}})

\* The sum of compute_area's loop: p1.x * p2.y - p2.x * p1.y over consecutive
\* vertices, polygon[(i + 1) % n] closing it; the loop does not run when n = 0.
RECURSIVE ShoelaceSum(_, _)
ShoelaceSum(polygon, i) ==
    IF i > Len(polygon) THEN 0
    ELSE LET p1 == polygon[i]
             p2 == polygon[(i % Len(polygon)) + 1]
         IN  (p1.x * p2.y - p2.x * p1.y) + ShoelaceSum(polygon, i + 1)

Abs(v) == IF v < 0 THEN 0 - v ELSE v

\* compute_area without the division by 2.
area_not_halved(polygon) == 2 * Abs(ShoelaceSum(polygon, 1))

\* double compute_area(const std::deque<Point>&), in units of 1/200:
\* std::abs(area) / 2.0 of a sum kept in hundredths.
compute_area(polygon) == Abs(ShoelaceSum(polygon, 1))

\* oss << area (default float format, six significant digits) of the area a/200.
\* Exact for areas below 1000, which have at most three decimals.
FormatArea(a) ==
    LET th == 5 * a
        ip == th \div 1000
        fp == th % 1000
        d3 == ToString(fp \div 100) \o ToString((fp \div 10) % 10) \o ToString(fp % 10)
        d2 == ToString(fp \div 100) \o ToString((fp \div 10) % 10)
        d1 == ToString(fp \div 100)
    IN  IF fp = 0 THEN ToString(ip)
        ELSE IF fp % 100 = 0 THEN ToString(ip) \o "." \o d1
        ELSE IF fp % 10 = 0 THEN ToString(ip) \o "." \o d2
        ELSE ToString(ip) \o "." \o d3

----------------------------------------------------------------------------
(* The command handlers, as functions of the shared graph state g.  Each   *)
(* returns the response and the state it leaves.                           *)

G == [point_set         |-> point_set,
      temp_points       |-> temp_points,
      waiting_for_graph |-> waiting_for_graph,
      points_to_read    |-> points_to_read,
      newgraph_owner_fd |-> newgraph_owner_fd]

Ret(resp, g) == [resp |-> resp, g |-> g]

\* The point a text "x,y" denotes (after the checks of the handlers).
PointOf(s) ==
    Point(stod(SubSeq(s, 1, Find(s, ",") - 1)), stod(Tail2(s, Find(s, ",") + 1)))

\* The two checks every handler makes on "x,y": a comma, and two numbers.
HasComma(s) == Find(s, ",") # 0
BothNumbers(s) ==
    is_number(SubSeq(s, 1, Find(s, ",") - 1)) /\ is_number(Tail2(s, Find(s, ",") + 1))

\* The last points_to_read-- brings the count to zero: the graph is swapped in.
LoadGraph(g, p) ==
    [g EXCEPT !.point_set = Append(g.temp_points, p),
              !.temp_points = <<>>,
              !.points_to_read = g.points_to_read - 1,
              !.waiting_for_graph = FALSE,
              !.newgraph_owner_fd = -1]

\* std::string handle_point_line(const std::string& line)
handle_point_line(g, line) ==
    IF ~HasComma(line) THEN Ret("ERROR: Invalid point format.", g)
    ELSE IF ~BothNumbers(line) THEN Ret("ERROR: Invalid point values.", g)
    ELSE The({IF g.points_to_read - 1 = 0
              THEN Ret("GRAPH_LOADED", LoadGraph(g, p))
              ELSE Ret("OK", [g EXCEPT !.temp_points = Append(g.temp_points, p),
                                       !.points_to_read = g.points_to_read - 1]) :
                p \in {PointOf(line)}})

\* handle_newpoint that adds no point equal to one point_set holds.
newpoint_unique(g, args) ==
    IF ~HasComma(args) THEN Ret("ERROR: Invalid format.", g)
    ELSE IF ~BothNumbers(args) THEN Ret("ERROR: Invalid values.", g)
    ELSE IF \E i \in 1..Len(g.point_set) : g.point_set[i] = PointOf(args) THEN Ret("OK", g)
    ELSE Ret("OK", [g EXCEPT !.point_set = Append(g.point_set, PointOf(args))])

\* std::string handle_newpoint(const std::string& args)
handle_newpoint(g, args) ==
    IF ~HasComma(args) THEN Ret("ERROR: Invalid format.", g)
    ELSE IF ~BothNumbers(args) THEN Ret("ERROR: Invalid values.", g)
    ELSE Ret("OK", [g EXCEPT !.point_set = Append(g.point_set, PointOf(args))])

\* Removepoint with only the first point equal to p erased.
remove_first(s, p) ==
    IF \E i \in 1..Len(s) : s[i] = p
    THEN The({SubSeq(s, 1, i - 1) \o SubSeq(s, i + 1, Len(s)) :
                 i \in {CHOOSE k \in 1..Len(s) : s[k] = p /\ \A j \in 1..(k - 1) : s[j] # p}})
    ELSE s

\* std::remove_if + erase: the elements that differ from p, in their order.
RemoveAll(s, p) == SelectSeq(s, LAMBDA q : ~(q.x = p.x /\ q.y = p.y))

\* std::string handle_removepoint(const std::string& args)
handle_removepoint(g, args) ==
    IF ~HasComma(args) THEN Ret("ERROR: Invalid format.", g)
    ELSE IF ~BothNumbers(args) THEN Ret("ERROR: Invalid values.", g)
    ELSE Ret("OK", [g EXCEPT !.point_set = RemoveAll(g.point_set, PointOf(args))])

\* std::string handle_ch()
handle_ch(g) ==
    Ret(FormatArea(compute_area(compute_convex_hull_deque(g.point_set))), g)

KwNewgraph == <<"N", "e", "w", "g", "r", "a", "p", "h">>
KwNewpoint == <<"N", "e", "w", "p", "o", "i", "n", "t">>
KwRemovepoint == <<"R", "e", "m", "o", "v", "e", "p", "o", "i", "n", "t">>
KwCH == <<"C", "H">>

\* The Newgraph branch of process_line: if (!(a >> n) || n <= 0) error; else the
\* session is opened for fd.
handle_newgraph(g, fd, args) ==
    The({IF ~r.ok \/ r.n <= 0 THEN Ret("ERROR: Invalid number.", g)
         ELSE Ret("OK", [g EXCEPT !.waiting_for_graph = TRUE,
                                  !.newgraph_owner_fd = fd,
                                  !.points_to_read = r.n,
                                  !.temp_points = <<>>]) :
            r \in {ReadInt(args)}})

\* run_command with the keyword CH compared without regard to case.
run_command_caseless_ch(g, fd, command, args) ==
    IF command = KwNewgraph THEN handle_newgraph(g, fd, args)
    ELSE IF command = KwNewpoint THEN handle_newpoint(g, args)
    ELSE IF command = KwRemovepoint THEN handle_removepoint(g, args)
    ELSE IF command \in {KwCH, <<"c", "h">>} THEN handle_ch(g)
    ELSE Ret("ERROR: Unknown command.", g)

\* process_line from the command split on: the line of an idle server.
run_command(g, fd, command, args) ==
    IF command = KwNewgraph THEN handle_newgraph(g, fd, args)
    ELSE IF command = KwNewpoint THEN handle_newpoint(g, args)
    ELSE IF command = KwRemovepoint THEN handle_removepoint(g, args)
    ELSE IF command = KwCH THEN handle_ch(g)
    ELSE Ret("ERROR: Unknown command.", g)

dispatch_command(g, fd, line) ==
    The({run_command(g, fd, ca[1], ca[2]) : ca \in {<<Command(line), Args(line)>>}})

\* The busy test dropped: every line goes on to the owner test.
never_busy(g, fd) == FALSE

\* The owner test dropped: the owner's lines go on to the command dispatch.
never_owner_line(g, fd) == FALSE

\* bool is_busy_for_fd(int fd), the test process_line makes first
is_busy_for_fd(g, fd) == g.waiting_for_graph /\ fd # g.newgraph_owner_fd

\* The second test of process_line: the line is a point of fd's own upload.
is_owner_line(g, fd) == g.waiting_for_graph /\ fd = g.newgraph_owner_fd

\* std::string process_line(int fd, const std::string& rawline), run by one thread
process_trimmed(g, fd, line) ==
    IF line = <<>> THEN Ret("", g)
    ELSE IF is_busy_for_fd(g, fd) THEN Ret("BUSY", g)
    ELSE IF is_owner_line(g, fd) THEN handle_point_line(g, line)
    ELSE dispatch_command(g, fd, line)

process_line(g, fd, rawline) ==
    The({process_trimmed(g, fd, line) : line \in {trim_crlf(rawline)}})

----------------------------------------------------------------------------
(* The peers: what the connections send.                                   *)

Ln(text) == text \o <<NL>>

Pt12 == <<"1", ",", "2">>
Pt34 == <<"3", ",", "4">>

LnNewgraph1 == Ln(KwNewgraph \o <<" ", "1">>)
LnNewgraph2 == Ln(KwNewgraph \o <<" ", "2">>)
LnPoint12 == Ln(Pt12)
LnPoint34 == Ln(Pt34)
LnNewpoint12 == Ln(KwNewpoint \o <<" ">> \o Pt12)
LnRemovepoint12 == Ln(KwRemovepoint \o <<" ">> \o Pt12)
LnCH == Ln(KwCH)
LnBlank == <<" ", CR, NL>>
LnGarbage == Ln(<<"x">>)

\* The lines a peer of Spec and SpecWorkers chooses from.
Lines == {LnNewgraph1, LnNewgraph2, LnPoint12, LnPoint34, LnNewpoint12,
          LnRemovepoint12, LnCH, LnBlank, LnGarbage}

\* The lines the peer of SpecStream chooses from.
StreamLines == {LnNewgraph2, LnPoint12, LnCH, LnBlank, <<NL>>}

CountNL(s) == Cardinality({i \in 1..Len(s) : s[i] = NL})

\* Lines sent and not yet read, over all connections.
RECURSIVE SumNL(_, _)
SumNL(q, S) ==
    IF S = {} THEN 0
    ELSE LET fd == CHOOSE f \in S : TRUE IN CountNL(q[fd]) + SumNL(q, S \ {fd})

InFlight == SumNL(net, Fds)

LowestFree == CHOOSE fd \in Fds : peer[fd] = "free" /\ \A o \in Fds : peer[o] = "free" => fd <= o

NoSession == [n |-> 0, pts |-> <<>>, prior |-> <<>>]

\* rcvd before the first read: no byte read, no read that ended inside a line,
\* no read that held several newlines.
NoReads == [bytes |-> <<>>, partial |-> FALSE, several |-> FALSE]

\* No line was answered by the step just taken.
NoEvent == [fd |-> 0, resp |-> ""]

\* A peer writes one line: the kernel queues its bytes for recv.  The peers write
\* one line at a time: the next is written when the server has read the last
\* (SpecStream has the peer that writes ahead).
ClientSend(fd, l) ==
    /\ peer[fd] = "open"
    /\ InFlight = 0
    /\ Command(trim_crlf(l)) = KwNewpoint => Len(point_set) < MaxPoints
    /\ net' = [net EXCEPT ![fd] = @ \o l]
    /\ ev' = NoEvent
    /\ UNCHANGED <<shared, clients, handlers, cur, peer, sess>>

\* A peer closes its end: recv returns 0 once the queued bytes are read.
ClientClose(fd) ==
    /\ peer[fd] = "open"
    /\ peer' = [peer EXCEPT ![fd] = "eof"]
    /\ ev' = NoEvent
    /\ UNCHANGED <<shared, clients, handlers, cur, net, sess>>

----------------------------------------------------------------------------
(* The reactor server (part6): every callback runs on the loop thread.     *)

\* What the peer on fd has been told about an upload of its own: the count it was
\* granted by 'OK' to Newgraph, the valid points it has sent since, and point_set
\* as it was at the grant.  (History only: no handler reads it.)
SessAfterTrimmed(s, g, line, resp) ==
    IF Command(line) = KwNewgraph /\ resp = "OK"
    THEN [n |-> ReadInt(Args(line)).n, pts |-> <<>>, prior |-> g.point_set]
    ELSE IF s.n > 0 /\ HasComma(line) /\ BothNumbers(line)
         THEN IF Len(s.pts) + 1 = s.n THEN NoSession
              ELSE [s EXCEPT !.pts = Append(@, PointOf(line))]
         ELSE s

SessAfter(s, g, rawline, resp) ==
    The({SessAfterTrimmed(s, g, line, resp) : line \in {trim_crlf(rawline)}})

\* void handle_listener(int fd): accept, addFdToReactor, clients[client_fd] = {}
handle_listener ==
    /\ cur = 0
    /\ \E fd \in Fds : peer[fd] = "free"
    /\ LET fd == LowestFree
       IN  /\ peer' = [peer EXCEPT ![fd] = "open"]
           /\ net' = [net EXCEPT ![fd] = <<>>]
           /\ handlers' = handlers \cup {fd}
           /\ clients' = [f \in DOMAIN clients \cup {fd} |->
                             IF f = fd THEN <<>> ELSE clients[f]]
           /\ sess' = [sess EXCEPT ![fd] = NoSession]
    /\ ev' = NoEvent
    /\ UNCHANGED <<shared, cur>>

\* recv with the bytes read replacing inbuf instead of being appended to it.
recv_overwrites_inbuf(fd, k) ==
    /\ cur = 0
    /\ fd \in handlers
    /\ k \in 1..Len(net[fd])
    /\ clients' = [f \in DOMAIN clients \cup {fd} |->
                      IF f = fd THEN SubSeq(net[fd], 1, k) ELSE clients[f]]
    /\ cur' = IF Find(SubSeq(net[fd], 1, k), NL) # 0 THEN fd ELSE 0
    /\ net' = [net EXCEPT ![fd] = Tail2(@, k + 1)]
    /\ ev' = NoEvent
    /\ UNCHANGED <<shared, handlers, peer, sess>>

\* handle_client(fd), recv returns k > 0 bytes: they are appended to inbuf; the
\* line loop follows when inbuf holds a newline.
handle_client_recv(fd, k) ==
    /\ cur = 0
    /\ fd \in handlers
    /\ k \in 1..Len(net[fd])
    /\ \E inbuf \in {(IF fd \in DOMAIN clients THEN clients[fd] ELSE <<>>)
                          \o SubSeq(net[fd], 1, k)} :
           /\ clients' = [f \in DOMAIN clients \cup {fd} |->
                             IF f = fd THEN inbuf ELSE clients[f]]
           /\ cur' = IF Find(inbuf, NL) # 0 THEN fd ELSE 0
    /\ net' = [net EXCEPT ![fd] = Tail2(@, k + 1)]
    /\ ev' = NoEvent
    /\ UNCHANGED <<shared, handlers, peer, sess>>

\* A response that reports an error to the peer.
IsErrorResponse(resp) ==
    resp \in {"BUSY", "ERROR: Invalid point format.", "ERROR: Invalid point values.",
              "ERROR: Invalid format.", "ERROR: Invalid values.", "ERROR: Invalid number.",
              "ERROR: Unknown command."}

\* The line loop, had it dropped the connection it answers with an error.
line_loop_closes_on_error ==
    /\ cur # 0
    /\ \E pos \in {Find(clients[cur], NL)} :
       \E line \in {SubSeq(clients[cur], 1, pos)}, rest \in {Tail2(clients[cur], pos + 1)} :
       \E r \in {process_line(G, cur, line)} :
           /\ point_set' = r.g.point_set
           /\ temp_points' = r.g.temp_points
           /\ waiting_for_graph' = r.g.waiting_for_graph
           /\ points_to_read' = r.g.points_to_read
           /\ newgraph_owner_fd' = r.g.newgraph_owner_fd
           /\ ev' = [fd |-> cur, resp |-> r.resp]
           /\ sess' = [sess EXCEPT ![cur] = SessAfter(@, G, line, r.resp)]
           /\ IF IsErrorResponse(r.resp)
              THEN /\ clients' = [f \in DOMAIN clients \ {cur} |-> clients[f]]
                   /\ handlers' = handlers \ {cur}
                   /\ peer' = [peer EXCEPT ![cur] = "free"]
                   /\ net' = [net EXCEPT ![cur] = <<>>]
                   /\ cur' = 0
              ELSE /\ clients' = [clients EXCEPT ![cur] = rest]
                   /\ cur' = IF Find(rest, NL) # 0 THEN cur ELSE 0
                   /\ UNCHANGED <<handlers, peer, net>>

\* One turn of the while loop of handle_client: the first line of inbuf is cut
\* off, process_line answers it, and a non-empty response is sent.
handle_client_line ==
    /\ cur # 0
    /\ \E pos \in {Find(clients[cur], NL)} :
       \E line \in {SubSeq(clients[cur], 1, pos)}, rest \in {Tail2(clients[cur], pos + 1)} :
       \E r \in {process_line(G, cur, line)} :
           /\ clients' = [clients EXCEPT ![cur] = rest]
           /\ point_set' = r.g.point_set
           /\ temp_points' = r.g.temp_points
           /\ waiting_for_graph' = r.g.waiting_for_graph
           /\ points_to_read' = r.g.points_to_read
           /\ newgraph_owner_fd' = r.g.newgraph_owner_fd
           /\ ev' = [fd |-> cur, resp |-> r.resp]
           /\ sess' = [sess EXCEPT ![cur] = SessAfter(@, G, line, r.resp)]
           /\ cur' = IF Find(rest, NL) # 0 THEN cur ELSE 0
    /\ UNCHANGED <<handlers, peer, net>>

\* The disconnect branch, had it cleared the session whoever disconnects.
abandon_any_upload(g, fd) ==
    [g EXCEPT !.waiting_for_graph = FALSE,
              !.newgraph_owner_fd = -1,
              !.temp_points = <<>>]

\* The session as the disconnect branch leaves it: cleared iff fd owns it.
abandon_upload(g, fd) ==
    IF g.waiting_for_graph /\ fd = g.newgraph_owner_fd
    THEN [g EXCEPT !.waiting_for_graph = FALSE,
                   !.newgraph_owner_fd = -1,
                   !.temp_points = <<>>]
    ELSE g

\* The disconnect branch without clients.erase(fd).
eof_keeps_client_state(fd) ==
    /\ cur = 0
    /\ fd \in handlers
    /\ net[fd] = <<>>
    /\ peer[fd] = "eof"
    /\ handlers' = handlers \ {fd}
    /\ peer' = [peer EXCEPT ![fd] = "free"]
    /\ \E g \in {abandon_upload(G, fd)} :
           /\ temp_points' = g.temp_points
           /\ waiting_for_graph' = g.waiting_for_graph
           /\ newgraph_owner_fd' = g.newgraph_owner_fd
    /\ sess' = [sess EXCEPT ![fd] = NoSession]
    /\ ev' = NoEvent
    /\ UNCHANGED <<point_set, points_to_read, cur, net, clients>>

\* handle_client(fd), recv returns <= 0: the descriptor is removed from the
\* reactor and closed, its ClientState erased, its upload abandoned.
handle_client_eof(fd) ==
    /\ cur = 0
    /\ fd \in handlers
    /\ net[fd] = <<>>
    /\ peer[fd] = "eof"
    /\ handlers' = handlers \ {fd}
    /\ peer' = [peer EXCEPT ![fd] = "free"]
    /\ clients' = [f \in DOMAIN clients \ {fd} |-> clients[f]]
    /\ \E g \in {abandon_upload(G, fd)} :
           /\ temp_points' = g.temp_points
           /\ waiting_for_graph' = g.waiting_for_graph
           /\ newgraph_owner_fd' = g.newgraph_owner_fd
    /\ sess' = [sess EXCEPT ![fd] = NoSession]
    /\ ev' = NoEvent
    /\ UNCHANGED <<point_set, points_to_read, cur, net>>

InitShared ==
    /\ point_set = <<>>
    /\ temp_points = <<>>
    /\ waiting_for_graph = FALSE
    /\ points_to_read = 0
    /\ newgraph_owner_fd = -1
    /\ clients = <<>>
    /\ peer = [fd \in Fds |-> "free"]
    /\ net = [fd \in Fds |-> <<>>]
    /\ ev = NoEvent
    /\ sess = [c \in Fds \cup Threads |-> NoSession]
    /\ sent = 0
    /\ rcvd = NoReads
    /\ lines = <<>>
    /\ out = <<>>
    /\ before = <<>>
    /\ hull = <<>>

Init ==
    /\ InitShared
    /\ handlers = {}
    /\ cur = 0
    /\ thr = [t \in Threads |-> [pc |-> "idle", fd |-> 0, line |-> <<>>]]
    /\ graph_mutex = 0

\* The reactor server with its peers; each recv takes what has arrived.
Listen == handle_listener /\ UNCHANGED <<thr, graph_mutex, hist>>
Send == (\E fd \in Fds, l \in Lines : ClientSend(fd, l)) /\ UNCHANGED <<thr, graph_mutex, hist>>
Close == (\E fd \in Fds : ClientClose(fd)) /\ UNCHANGED <<thr, graph_mutex, hist>>
Recv ==
    /\ \E fd \in Fds : handle_client_recv(fd, Len(net[fd]))
    /\ UNCHANGED <<thr, graph_mutex, hist>>
Line == handle_client_line /\ UNCHANGED <<thr, graph_mutex, hist>>
Eof == (\E fd \in Fds : handle_client_eof(fd)) /\ UNCHANGED <<thr, graph_mutex, hist>>

Next == Listen \/ Send \/ Close \/ Recv \/ Line \/ Eof

Spec == Init /\ [][Next]_vars

----------------------------------------------------------------------------
(* The thread-per-connection server (part7): main accepts, and each        *)
(* connection is served by a thread of its own running handle_client.      *)
(* thr[t] is thread t: where it stands (pc), its client_fd, and the        *)
(* trimmed line process_line is working on.  graph_mutex is the thread     *)
(* holding the mutex, 0 when it is free.  sess is kept per thread here.    *)

NoThread == [pc |-> "idle", fd |-> 0, line |-> <<>>]

\* The lines a peer of SpecWorkers chooses from.
WorkerLines == {LnNewgraph1, LnNewgraph2, LnPoint12, LnNewpoint12, LnRemovepoint12,
                LnCH, LnBlank}

FirstIdle == CHOOSE t \in Threads : thr[t].pc = "idle" /\ \A o \in Threads : thr[o].pc = "idle" => t <= o

\* main: accept, clients[client_fd] = ClientState{} under the mutex, and the
\* thread is started.
accept_client ==
    /\ \E fd \in Fds : peer[fd] = "free"
    /\ \E t \in Threads : thr[t].pc = "idle"
    /\ graph_mutex = 0
    /\ \E fd \in {LowestFree}, t \in {FirstIdle} :
           /\ peer' = [peer EXCEPT ![fd] = "open"]
           /\ net' = [net EXCEPT ![fd] = <<>>]
           /\ clients' = [f \in DOMAIN clients \cup {fd} |->
                             IF f = fd THEN <<>> ELSE clients[f]]
           /\ thr' = [thr EXCEPT ![t] = [pc |-> "recv", fd |-> fd, line |-> <<>>]]
           /\ sess' = [sess EXCEPT ![t] = NoSession]
    /\ ev' = NoEvent
    /\ UNCHANGED <<shared, handlers, cur, graph_mutex, hist>>

\* The thread leaves process_line with resp and is back at recv.
Answer(t, resp) ==
    /\ thr' = [thr EXCEPT ![t] = [@ EXCEPT !.pc = "recv", !.line = <<>>]]
    /\ ev' = [fd |-> thr[t].fd, resp |-> resp]
    /\ sess' = [sess EXCEPT ![t] = SessAfterTrimmed(@, G, thr[t].line, resp)]

\* recv returns the bytes that have arrived: they are appended to inbuf, the line
\* is cut off and trimmed; an empty one is answered by nothing.
worker_recv(t) ==
    /\ thr[t].pc = "recv"
    /\ net[thr[t].fd] # <<>>
    /\ \E fd \in {thr[t].fd} :
       \E inbuf \in {(IF fd \in DOMAIN clients THEN clients[fd] ELSE <<>>) \o net[fd]} :
       \E line \in {trim_crlf(SubSeq(inbuf, 1, Find(inbuf, NL)))} :
           /\ clients' = [f \in DOMAIN clients \cup {fd} |->
                             IF f = fd THEN Tail2(inbuf, Find(inbuf, NL) + 1) ELSE clients[f]]
           /\ net' = [net EXCEPT ![fd] = <<>>]
           /\ thr' = [thr EXCEPT ![t] = [@ EXCEPT !.pc = IF line = <<>> THEN "recv" ELSE "l153",
                                                  !.line = line]]
           /\ ev' = IF line = <<>> THEN [fd |-> fd, resp |-> ""] ELSE NoEvent
    /\ UNCHANGED <<shared, handlers, cur, peer, graph_mutex, sess, hist>>

\* recv returns 0: close(client_fd), before the mutex is asked for.
worker_eof(t) ==
    /\ thr[t].pc = "recv"
    /\ net[thr[t].fd] = <<>>
    /\ peer[thr[t].fd] = "eof"
    /\ peer' = [peer EXCEPT ![thr[t].fd] = "free"]
    /\ thr' = [thr EXCEPT ![t] = [@ EXCEPT !.pc = "closed"]]
    /\ ev' = NoEvent
    /\ UNCHANGED <<shared, clients, handlers, cur, net, graph_mutex, sess, hist>>

\* if (waiting_for_graph && fd != newgraph_owner_fd) return "BUSY"; no mutex held
worker_l153(t) ==
    /\ thr[t].pc = "l153"
    /\ IF is_busy_for_fd(G, thr[t].fd)
       THEN Answer(t, "BUSY")
       ELSE /\ thr' = [thr EXCEPT ![t] = [@ EXCEPT !.pc = "l157"]]
            /\ ev' = NoEvent
            /\ UNCHANGED sess
    /\ UNCHANGED <<shared, clients, handlers, cur, peer, net, graph_mutex, hist>>

KnownCommands == {KwNewgraph, KwNewpoint, KwRemovepoint, KwCH}

\* if (waiting_for_graph && fd == newgraph_owner_fd) return handle_point_line(line);
\* otherwise the command is parsed; an unknown one is answered at once.
worker_l157(t) ==
    /\ thr[t].pc = "l157"
    /\ IF is_owner_line(G, thr[t].fd)
       THEN /\ thr' = [thr EXCEPT ![t] = [@ EXCEPT !.pc = "point"]]
            /\ ev' = NoEvent
            /\ UNCHANGED sess
       ELSE IF Command(thr[t].line) \in KnownCommands
       THEN /\ thr' = [thr EXCEPT ![t] = [@ EXCEPT !.pc = "cmd"]]
            /\ ev' = NoEvent
            /\ UNCHANGED sess
       ELSE Answer(t, "ERROR: Unknown command.")
    /\ UNCHANGED <<shared, clients, handlers, cur, peer, net, graph_mutex, hist>>

LockedPc(pc) ==
    IF pc = "point" THEN "in_point" ELSE IF pc = "cmd" THEN "in_cmd" ELSE "cleanup"

\* The mutex taken without waiting for it to be free.
lock_without_waiting(t) ==
    /\ thr[t].pc \in {"point", "cmd", "closed"}
    /\ graph_mutex' = t
    /\ thr' = [thr EXCEPT ![t] = [@ EXCEPT !.pc = LockedPc(@)]]
    /\ ev' = NoEvent
    /\ UNCHANGED <<shared, clients, handlers, cur, peer, net, sess, hist>>

\* std::lock_guard<std::mutex> lock(graph_mutex), in handle_point_line, in the
\* Newgraph branch, in handle_newpoint, handle_removepoint and handle_ch, and in
\* the disconnect branch of handle_client
worker_lock(t) ==
    /\ thr[t].pc \in {"point", "cmd", "closed"}
    /\ graph_mutex = 0
    /\ graph_mutex' = t
    /\ thr' = [thr EXCEPT ![t] = [@ EXCEPT !.pc = LockedPc(@)]]
    /\ ev' = NoEvent
    /\ UNCHANGED <<shared, clients, handlers, cur, peer, net, sess, hist>>

\* The body run under the mutex, which its return releases.
Locked(t, r) ==
    /\ point_set' = r.g.point_set
    /\ temp_points' = r.g.temp_points
    /\ waiting_for_graph' = r.g.waiting_for_graph
    /\ points_to_read' = r.g.points_to_read
    /\ newgraph_owner_fd' = r.g.newgraph_owner_fd
    /\ graph_mutex' = 0
    /\ Answer(t, r.resp)

worker_point(t) ==
    /\ thr[t].pc = "in_point"
    /\ \E r \in {handle_point_line(G, thr[t].line)} : Locked(t, r)
    /\ UNCHANGED <<clients, handlers, cur, peer, net, hist>>

worker_cmd(t) ==
    /\ thr[t].pc = "in_cmd"
    /\ \E r \in {dispatch_command(G, thr[t].fd, thr[t].line)} : Locked(t, r)
    /\ UNCHANGED <<clients, handlers, cur, peer, net, hist>>

\* The cleanup, had it erased the ClientState and left the session alone.
cleanup_keeps_session(t) ==
    /\ thr[t].pc = "cleanup"
    /\ clients' = [f \in DOMAIN clients \ {thr[t].fd} |-> clients[f]]
    /\ graph_mutex' = 0
    /\ thr' = [thr EXCEPT ![t] = [NoThread EXCEPT !.pc = "done"]]
    /\ sess' = [sess EXCEPT ![t] = NoSession]
    /\ ev' = NoEvent
    /\ UNCHANGED <<shared, handlers, cur, peer, net, hist>>

\* clients.erase(client_fd) and the upload abandoned if client_fd owns it; the
\* thread ends.
worker_cleanup(t) ==
    /\ thr[t].pc = "cleanup"
    /\ clients' = [f \in DOMAIN clients \ {thr[t].fd} |-> clients[f]]
    /\ \E g \in {abandon_upload(G, thr[t].fd)} :
           /\ temp_points' = g.temp_points
           /\ waiting_for_graph' = g.waiting_for_graph
           /\ newgraph_owner_fd' = g.newgraph_owner_fd
    /\ graph_mutex' = 0
    /\ thr' = [thr EXCEPT ![t] = [NoThread EXCEPT !.pc = "done"]]
    /\ sess' = [sess EXCEPT ![t] = NoSession]
    /\ ev' = NoEvent
    /\ UNCHANGED <<point_set, points_to_read, handlers, cur, peer, net, hist>>

InitWorkers ==
    /\ InitShared
    /\ handlers = {}
    /\ cur = 0
    /\ thr = [t \in Threads |-> NoThread]
    /\ graph_mutex = 0

Accept == accept_client
\* A peer sends its next line when the last one has been dealt with.
Served(fd) == \E t \in Threads : thr[t].fd = fd /\ thr[t].pc = "recv"

WSend ==
    /\ sent < MaxSent
    /\ \E fd \in Fds, l \in WorkerLines : Served(fd) /\ ClientSend(fd, l)
    /\ sent' = sent + 1
    /\ UNCHANGED <<thr, graph_mutex, rcvd, lines, out, before, hull>>
WClose == (\E fd \in Fds : ClientClose(fd)) /\ UNCHANGED <<thr, graph_mutex, hist>>
WRecv == \E t \in Threads : worker_recv(t)
WEof == \E t \in Threads : worker_eof(t)
W153 == \E t \in Threads : worker_l153(t)
W157 == \E t \in Threads : worker_l157(t)
WLock == \E t \in Threads : worker_lock(t)
WPoint == \E t \in Threads : worker_point(t)
WCmd == \E t \in Threads : worker_cmd(t)
WCleanup == \E t \in Threads : worker_cleanup(t)

NextWorkers ==
    \/ Accept \/ WSend \/ WClose \/ WRecv \/ WEof \/ W153 \/ W157
    \/ WLock \/ WPoint \/ WCmd \/ WCleanup

SpecWorkers == InitWorkers /\ [][NextWorkers]_vars

\* The lines a peer of FairWorkers chooses from.
FairLines == {LnNewgraph2, LnPoint12, LnCH}

FSend ==
    /\ sent < MaxSent
    /\ \E fd \in Fds, l \in FairLines : Served(fd) /\ ClientSend(fd, l)
    /\ sent' = sent + 1
    /\ UNCHANGED <<thr, graph_mutex, rcvd, lines, out, before, hull>>

NextFair ==
    \/ Accept \/ FSend \/ WClose \/ WRecv \/ WEof \/ W153 \/ W157
    \/ WLock \/ WPoint \/ WCmd \/ WCleanup

\* The scheduler runs every thread that can take a step, and a free mutex is
\* given to a thread that waits for it; the peers and accept are not bound to
\* go on.
FairWorkers ==
    /\ InitWorkers
    /\ [][NextFair]_vars
    /\ WF_vars(WRecv) /\ WF_vars(WEof) /\ WF_vars(W153) /\ WF_vars(W157)
    /\ WF_vars(WLock) /\ WF_vars(WPoint) /\ WF_vars(WCmd) /\ WF_vars(WCleanup)

----------------------------------------------------------------------------
(* The proactor server (part9): the reactor thread accepts and starts a    *)
(* thread per connection with startProactor; the thread runs               *)
(* client_thread_handler inside threadWrapper.  process_line and the       *)
(* handlers are those of the thread-per-connection server.                 *)

\* void handle_new_connection(int listener_fd): accept and startProactor; no
\* mutex is taken.
handle_new_connection ==
    /\ \E fd \in Fds : peer[fd] = "free"
    /\ \E t \in Threads : thr[t].pc = "idle"
    /\ \E fd \in {LowestFree}, t \in {FirstIdle} :
           /\ peer' = [peer EXCEPT ![fd] = "open"]
           /\ net' = [net EXCEPT ![fd] = <<>>]
           /\ thr' = [thr EXCEPT ![t] = [pc |-> "start", fd |-> fd, line |-> <<>>]]
           /\ sess' = [sess EXCEPT ![t] = NoSession]
    /\ ev' = NoEvent
    /\ UNCHANGED <<shared, clients, handlers, cur, graph_mutex, hist>>

\* client_thread_handler: clients[fd] = ClientState{}; the first statement of the
\* thread, no mutex held.
proactor_start(t) ==
    /\ thr[t].pc = "start"
    /\ clients' = [f \in DOMAIN clients \cup {thr[t].fd} |->
                      IF f = thr[t].fd THEN <<>> ELSE clients[f]]
    /\ thr' = [thr EXCEPT ![t] = [@ EXCEPT !.pc = "recv"]]
    /\ ev' = NoEvent
    /\ UNCHANGED <<shared, handlers, cur, peer, net, graph_mutex, sess, hist>>

\* recv returns -1 on a descriptor that has been closed: break, and close(fd).
proactor_recv_fails(t) ==
    /\ thr[t].pc = "recv"
    /\ peer[thr[t].fd] = "free"
    /\ thr' = [thr EXCEPT ![t] = [@ EXCEPT !.pc = "closed"]]
    /\ ev' = NoEvent
    /\ UNCHANGED <<shared, clients, handlers, cur, peer, net, graph_mutex, sess, hist>>

\* The end of client_thread_handler: clients.erase(fd) and the upload abandoned if
\* fd owns it, under the mutex; return nullptr, back into threadWrapper.
proactor_cleanup(t) ==
    /\ thr[t].pc = "cleanup"
    /\ clients' = [f \in DOMAIN clients \ {thr[t].fd} |-> clients[f]]
    /\ \E g \in {abandon_upload(G, thr[t].fd)} :
           /\ temp_points' = g.temp_points
           /\ waiting_for_graph' = g.waiting_for_graph
           /\ newgraph_owner_fd' = g.newgraph_owner_fd
    /\ graph_mutex' = 0
    /\ thr' = [thr EXCEPT ![t] = [@ EXCEPT !.pc = "wrapper", !.line = <<>>]]
    /\ sess' = [sess EXCEPT ![t] = NoSession]
    /\ ev' = NoEvent
    /\ UNCHANGED <<point_set, points_to_read, handlers, cur, peer, net, hist>>

\* threadWrapper after func returns: close(args->sockfd), whatever that number
\* denotes by now; delete args; the thread ends.
threadWrapper_close(t) ==
    /\ thr[t].pc = "wrapper"
    /\ peer' = [peer EXCEPT ![thr[t].fd] = "free"]
    /\ net' = [net EXCEPT ![thr[t].fd] = <<>>]
    /\ thr' = [thr EXCEPT ![t] = [NoThread EXCEPT !.pc = "done"]]
    /\ ev' = NoEvent
    /\ UNCHANGED <<shared, clients, handlers, cur, graph_mutex, sess, hist>>

PAccept == handle_new_connection
PStart == \E t \in Threads : proactor_start(t)
PRecvFails == \E t \in Threads : proactor_recv_fails(t)
PCleanup == \E t \in Threads : proactor_cleanup(t)
PWrapper == \E t \in Threads : threadWrapper_close(t)

NextProactor ==
    \/ PAccept \/ PStart \/ FSend \/ WClose \/ WRecv \/ WEof \/ PRecvFails \/ W153 \/ W157
    \/ WLock \/ WPoint \/ WCmd \/ PCleanup \/ PWrapper

SpecProactor == InitWorkers /\ [][NextProactor]_vars

----------------------------------------------------------------------------
(* One connection whose bytes reach the server in reads of any size.       *)

StreamFd == 4

ReadsAfter(r, chunk) ==
    [bytes   |-> r.bytes \o chunk,
     partial |-> r.partial \/ chunk[Len(chunk)] # NL,
     several |-> r.several \/ CountNL(chunk) > 1]

\* The peer writes one more line, whatever is still queued: lines pipeline.
ClientSendPipelined(fd, l) ==
    /\ peer[fd] = "open"
    /\ CountNL(rcvd.bytes) + CountNL(net[fd]) < MaxStreamLines
    /\ net' = [net EXCEPT ![fd] = @ \o l]
    /\ ev' = NoEvent
    /\ UNCHANGED <<shared, clients, handlers, cur, peer, sess>>

StreamListen ==
    /\ rcvd = NoReads
    /\ handlers = {}
    /\ handle_listener
    /\ UNCHANGED <<thr, graph_mutex, hist>>
StreamSend ==
    /\ \E l \in StreamLines : ClientSendPipelined(StreamFd, l)
    /\ UNCHANGED <<thr, graph_mutex, hist>>
StreamClose == ClientClose(StreamFd) /\ UNCHANGED <<thr, graph_mutex, hist>>
\* rcvd: what the reads made so far have delivered.
StreamRecv ==
    /\ \E k \in 1..Len(net[StreamFd]) :
           /\ handle_client_recv(StreamFd, k)
           /\ rcvd' = ReadsAfter(rcvd, SubSeq(net[StreamFd], 1, k))
    /\ UNCHANGED <<thr, graph_mutex, sent, lines, out, before, hull>>
\* lines: the lines handed to process_line; out: the responses given to send.
StreamLine ==
    /\ handle_client_line
    /\ lines' = Append(lines, SubSeq(clients[cur], 1, Find(clients[cur], NL)))
    /\ out' = IF ev'.resp = "" THEN out ELSE Append(out, ev'.resp)
    /\ UNCHANGED <<thr, graph_mutex, sent, rcvd, before, hull>>
StreamEof == handle_client_eof(StreamFd) /\ UNCHANGED <<thr, graph_mutex, hist>>

NextStream ==
    StreamListen \/ StreamSend \/ StreamClose \/ StreamRecv \/ StreamLine \/ StreamEof

SpecStream == Init /\ [][NextStream]_vars

----------------------------------------------------------------------------
(* One connection of the reactor server sending every kind of line, well   *)
(* formed or not, to a server whose point_set is any sequence of points    *)
(* that Newpoint commands can have built.                                  *)

Sp == <<" ">>
Tab == <<"\t">>

CmdNewpoint(t) == Ln(KwNewpoint \o Sp \o t)
CmdRemovepoint(t) == Ln(KwRemovepoint \o Sp \o t)
CmdNewgraph(t) == Ln(KwNewgraph \o Sp \o t)

\* Lines that are well formed.
ValidLines ==
    {LnNewgraph1, LnNewgraph2, LnPoint12, LnPoint34, LnNewpoint12, CmdNewpoint(Pt34),
     LnRemovepoint12, CmdRemovepoint(<<"1", ".", "0", ",", "+", "2">>), LnCH, LnBlank}

\* Newpoint and Removepoint without a comma or with a side that is no number,
\* Newgraph with a count that is no number or not positive.
MalformedLines ==
    {CmdNewpoint(<<"1", "2">>), CmdNewpoint(<<"1", ",">>), CmdNewpoint(<<"a", ",", "2">>),
     Ln(KwNewpoint), CmdRemovepoint(<<"1", " ", "2">>), CmdRemovepoint(<<"1", ",", "x">>),
     CmdRemovepoint(<<"1", ",", "2", ",", "3">>),
     CmdNewgraph(<<"0">>), CmdNewgraph(<<"-", "1">>), CmdNewgraph(<<"a", "b", "c">>),
     Ln(KwNewgraph)}

\* Newgraph with a count that begins with digits and goes on.
PrefixCountLines == {CmdNewgraph(<<"3", "a", "b", "c">>), CmdNewgraph(<<"2", ".", "5">>)}

\* Lines whose first word is no command.
UnknownLines ==
    {LnGarbage, Ln(<<"c", "h">>), Ln(<<"n", "e", "w", "p", "o", "i", "n", "t">> \o Sp \o Pt12),
     Ln(KwCH \o <<"X">>), Ln(KwNewpoint \o Pt12)}

\* Well-formed lines with blanks or a tab before the line terminator, or
\* blanks in front.
PaddedLines ==
    {Ln(KwNewpoint \o Sp \o Pt12 \o Sp), Ln(Pt12 \o Sp), Ln(KwCH \o Sp),
     Ln(KwRemovepoint \o Sp \o Pt12 \o Tab), Ln(KwNewgraph \o Sp \o <<"2">> \o Sp),
     Ln(Sp \o KwCH), <<"1", ",", "2", CR, NL>>}

CommandLines == ValidLines \cup MalformedLines \cup PrefixCountLines \cup UnknownLines \cup PaddedLines

\* The sequences over S of length at most n.
RECURSIVE SeqsUpTo(_, _)
SeqsUpTo(S, n) ==
    IF n = 0 THEN {<<>>}
    ELSE {<<>>} \cup {<<x>> \o t : x \in S, t \in SeqsUpTo(S, n - 1)}

\* The point sets the server of SpecCommands starts from.
SomePointSets == SeqsUpTo({Point(10, 20), Point(30, 40)}, MaxPoints + 1)

InitCommands ==
    /\ point_set \in SomePointSets
    /\ temp_points = <<>>
    /\ waiting_for_graph = FALSE
    /\ points_to_read = 0
    /\ newgraph_owner_fd = -1
    /\ clients = <<>>
    /\ peer = [fd \in Fds |-> "free"]
    /\ net = [fd \in Fds |-> <<>>]
    /\ ev = NoEvent
    /\ sess = [c \in Fds \cup Threads |-> NoSession]
    /\ sent = 0
    /\ rcvd = NoReads
    /\ lines = <<>>
    /\ out = <<>>
    /\ before = <<>>
    /\ hull = <<>>
    /\ handlers = {}
    /\ cur = 0
    /\ thr = [t \in Threads |-> NoThread]
    /\ graph_mutex = 0

\* lines holds the line the step just taken has answered, if it answered one,
\* and before the shared state that line was met with.
CmdListen ==
    /\ handlers = {}
    /\ handle_listener
    /\ lines' = <<>>
    /\ before' = <<>>
    /\ UNCHANGED <<thr, graph_mutex, sent, rcvd, out, hull>>
\* The peer writes its next line when the last one has been answered.
CmdSend ==
    /\ cur = 0
    /\ \E l \in CommandLines : ClientSend(StreamFd, l)
    /\ lines' = <<>>
    /\ before' = <<>>
    /\ UNCHANGED <<thr, graph_mutex, sent, rcvd, out, hull>>
CmdClose ==
    /\ ClientClose(StreamFd)
    /\ lines' = <<>>
    /\ before' = <<>>
    /\ UNCHANGED <<thr, graph_mutex, sent, rcvd, out, hull>>
CmdRecv ==
    /\ handle_client_recv(StreamFd, Len(net[StreamFd]))
    /\ lines' = <<>>
    /\ before' = <<>>
    /\ UNCHANGED <<thr, graph_mutex, sent, rcvd, out, hull>>
CmdLine ==
    /\ handle_client_line
    /\ lines' = <<SubSeq(clients[cur], 1, Find(clients[cur], NL))>>
    /\ before' = <<G>>
    /\ UNCHANGED <<thr, graph_mutex, sent, rcvd, out, hull>>
CmdEof ==
    /\ handle_client_eof(StreamFd)
    /\ lines' = <<>>
    /\ before' = <<>>
    /\ UNCHANGED <<thr, graph_mutex, sent, rcvd, out, hull>>

NextCommands == CmdListen \/ CmdSend \/ CmdClose \/ CmdRecv \/ CmdLine \/ CmdEof

SpecCommands == InitCommands /\ [][NextCommands]_vars

----------------------------------------------------------------------------
(* The hull of every point sequence over a small grid, as handle_ch        *)
(* computes it.                                                            *)

\* Point sequences of SpecHull hold at most this many points.
MaxHullPoints == 4

\* The coordinates of the grid 0..2 x 0..2, in tenths.
GridCoords == {0, 10, 20}
GridPoints == {Point(x, y) : x \in GridCoords, y \in GridCoords}

InitHull ==
    /\ point_set \in SeqsUpTo(GridPoints, MaxHullPoints)
    /\ temp_points = <<>>
    /\ waiting_for_graph = FALSE
    /\ points_to_read = 0
    /\ newgraph_owner_fd = -1
    /\ clients = <<>>
    /\ peer = [fd \in Fds |-> "free"]
    /\ net = [fd \in Fds |-> <<>>]
    /\ ev = NoEvent
    /\ sess = [c \in Fds \cup Threads |-> NoSession]
    /\ sent = 0
    /\ rcvd = NoReads
    /\ lines = <<>>
    /\ out = <<>>
    /\ before = <<>>
    /\ hull = <<>>
    /\ handlers = {}
    /\ cur = 0
    /\ thr = [t \in Threads |-> NoThread]
    /\ graph_mutex = 0

\* handle_ch: the hull of point_set is computed and its area is the response.
CallHull ==
    /\ hull = <<>>
    /\ \E h \in {compute_convex_hull_deque(point_set)} :
           /\ hull' = <<h>>
           /\ ev' = [fd |-> StreamFd, resp |-> FormatArea(compute_area(h))]
    /\ UNCHANGED <<shared, clients, handlers, cur, peer, net, thr, graph_mutex, sess,
                   sent, rcvd, lines, out, before>>

NextHull == CallHull

SpecHull == InitHull /\ [][NextHull]_vars

----------------------------------------------------------------------------
(* One connection of the reactor server that loads or adds the corners of  *)
(* the square (0,0),(0,10),(10,10),(10,0), in any order, and asks for CH.  *)

SquareTexts ==
    {<<"0", ",", "0">>, <<"0", ",", "1", "0">>, <<"1", "0", ",", "1", "0">>,
     <<"1", "0", ",", "0">>}

\* The corners as the handlers read them (coordinates in tenths).
Square == {PointOf(t) : t \in SquareTexts}

Holds(s, p) == \E i \in 1..Len(s) : s[i] = p

\* What the peer may write next: Newgraph 4 and CH at any time, a corner not yet
\* in the upload buffer while an upload is pending, and Newpoint of a corner
\* that point_set does not hold when none is.
SquareLines ==
    {CmdNewgraph(<<"4">>), LnCH}
    \cup {Ln(t) : t \in {u \in SquareTexts : waiting_for_graph /\ ~Holds(temp_points, PointOf(u))}}
    \cup {CmdNewpoint(t) : t \in {u \in SquareTexts : ~waiting_for_graph /\ ~Holds(point_set, PointOf(u))}}

SqSend ==
    /\ cur = 0
    /\ peer[StreamFd] = "open"
    /\ InFlight = 0
    /\ \E l \in SquareLines : net' = [net EXCEPT ![StreamFd] = @ \o l]
    /\ ev' = NoEvent
    /\ lines' = <<>>
    /\ before' = <<>>
    /\ UNCHANGED <<shared, clients, handlers, cur, peer, sess, thr, graph_mutex,
                   sent, rcvd, out, hull>>

NextSquare == CmdListen \/ SqSend \/ CmdClose \/ CmdRecv \/ CmdLine \/ CmdEof

SpecSquare == Init /\ [][NextSquare]_vars

----------------------------------------------------------------------------
(* One connection after another on the same descriptor number, each        *)
(* sending whole lines and, possibly, the beginning of a line before it    *)
(* closes.                                                                 *)

WholeLines == {LnNewgraph1, LnPoint12, LnNewpoint12, LnCH, <<NL>>}

\* Beginnings of lines: the text of a line without its newline, and less.
Fragments == {KwNewgraph \o Sp \o <<"1">>, Pt12, KwNewpoint \o Sp \o Pt12, KwCH, <<"C">>}

\* The peer writes when all it has written was read and no beginning of a line
\* is waiting in inbuf: after the beginning of a line it can only close.
PartSend ==
    /\ cur = 0
    /\ peer[StreamFd] = "open"
    /\ net[StreamFd] = <<>>
    /\ StreamFd \in DOMAIN clients /\ clients[StreamFd] = <<>>
    /\ \E l \in WholeLines \cup Fragments :
           /\ Command(trim_crlf(l)) = KwNewpoint => Len(point_set) < MaxPoints
           /\ net' = [net EXCEPT ![StreamFd] = l]
    /\ ev' = NoEvent
    /\ lines' = <<>>
    /\ before' = <<>>
    /\ UNCHANGED <<shared, clients, handlers, cur, peer, sess, thr, graph_mutex,
                   sent, rcvd, out, hull>>

\* rcvd.partial: some read, of this connection or of one before it, has ended
\* inside a line.
PartRecv ==
    /\ handle_client_recv(StreamFd, Len(net[StreamFd]))
    /\ rcvd' = [rcvd EXCEPT !.partial = @ \/ net[StreamFd][Len(net[StreamFd])] # NL]
    /\ lines' = <<>>
    /\ before' = <<>>
    /\ UNCHANGED <<thr, graph_mutex, sent, out, hull>>

NextPartial == CmdListen \/ PartSend \/ CmdClose \/ PartRecv \/ CmdLine \/ CmdEof

SpecPartial == Init /\ [][NextPartial]_vars

----------------------------------------------------------------------------
(* The reactor library by itself (SpecReactor): reactorLoop in its thread, *)
(* and a second thread that adds and removes descriptors and stops it.     *)
(*                                                                         *)
(* handlers is Reactor::handlers.  thr is here the record of the two       *)
(* threads: running (Reactor::running), pc (the line reactorLoop is at),   *)
(* readfds and ready_fds (its locals), stop (how far stopReactor has come).*)
(* cur is the descriptor whose callback the loop has copied into func.     *)
(* sess is the history of the calls: removed, the descriptors for which    *)
(* removeFdFromReactor has returned and addFdToReactor was not called      *)
(* since, and ret, what stopReactor returned (-1 while it has not).        *)
(* Every access to handlers is made under Reactor::lock and none of the    *)
(* locked blocks waits, so each locked block is one step.                  *)

\* Descriptors given to the reactor: the listener and two connections.
ReactorFds == {3} \cup Fds

\* All orders in which an unordered_map can be iterated.
Orders(S) ==
    {s \in [1..Cardinality(S) -> S] : \A i, j \in 1..Cardinality(S) : s[i] = s[j] => i = j}

InitReactor ==
    /\ point_set = <<>>
    /\ temp_points = <<>>
    /\ waiting_for_graph = FALSE
    /\ points_to_read = 0
    /\ newgraph_owner_fd = -1
    /\ clients = <<>>
    /\ peer = [fd \in Fds |-> "free"]
    /\ net = [fd \in Fds |-> <<>>]
    /\ ev = NoEvent
    /\ sess = [removed |-> {}, ret |-> -1]
    /\ sent = 0
    /\ rcvd = NoReads
    /\ lines = <<>>
    /\ out = <<>>
    /\ before = <<>>
    /\ hull = <<>>
    /\ handlers = {}
    /\ cur = 0
    /\ thr = [running |-> TRUE, pc |-> "l18", readfds |-> {}, ready_fds |-> <<>>,
              stop |-> "no"]
    /\ graph_mutex = 0

UnchangedByReactor ==
    UNCHANGED <<shared, clients, peer, net, graph_mutex, sent, rcvd, lines, out, before, hull>>

\* addFdToReactor: handlers[fd] = func under the lock.
addFdToReactor(fd) ==
    /\ handlers' = handlers \cup {fd}
    /\ sess' = [sess EXCEPT !.removed = @ \ {fd}]

\* removeFdFromReactor: handlers.erase(fd) under the lock, return 0.
removeFdFromReactor(fd) ==
    /\ handlers' = handlers \ {fd}
    /\ sess' = [sess EXCEPT !.removed = @ \cup {fd}]

\* while (reactor->running) that never reads the flag.
loop_condition_true(r) == TRUE

\* reactorLoop line 18: the condition of the while.
loop_condition(r) == r.running

\* Line 18: the loop goes on or the thread function returns.
reactor_while ==
    /\ thr.pc = "l18"
    /\ thr' = [thr EXCEPT !.pc = IF loop_condition(thr) THEN "l24" ELSE "exited"]
    /\ ev' = NoEvent
    /\ UNCHANGED <<handlers, cur, sess>>

\* Lines 19-34: readfds is filled from handlers; with none, sleep and continue.
reactor_fdset ==
    /\ thr.pc = "l24"
    /\ thr' = [thr EXCEPT !.readfds = handlers,
                          !.pc = IF handlers = {} THEN "l18" ELSE "l37"]
    /\ ev' = NoEvent
    /\ UNCHANGED <<handlers, cur, sess>>

\* Lines 36-39: select leaves in readfds the descriptors that are readable, or
\* none when the second of its timeout has passed (or it failed).
reactor_select ==
    /\ thr.pc = "l37"
    /\ \E R \in SUBSET thr.readfds :
           thr' = [thr EXCEPT !.readfds = R, !.pc = IF R = {} THEN "l18" ELSE "l42"]
    /\ ev' = NoEvent
    /\ UNCHANGED <<handlers, cur, sess>>

\* Lines 40-48: ready_fds, the registered descriptors that are set in readfds.
reactor_collect ==
    /\ thr.pc = "l42"
    /\ \E s \in Orders(handlers \cap thr.readfds) :
           thr' = [thr EXCEPT !.ready_fds = s, !.pc = "l50"]
    /\ ev' = NoEvent
    /\ UNCHANGED <<handlers, cur, sess>>

\* Lines 50-60: the next descriptor of ready_fds; its callback is copied under
\* the lock, and a descriptor that is registered no more is passed over.
reactor_lookup ==
    /\ thr.pc = "l50"
    /\ IF thr.ready_fds = <<>>
       THEN thr' = [thr EXCEPT !.pc = "l18"] /\ cur' = cur
       ELSE /\ thr' = [thr EXCEPT !.ready_fds = Tail(@),
                                  !.pc = IF Head(thr.ready_fds) \in handlers
                                         THEN "l61" ELSE "l50"]
            /\ cur' = IF Head(thr.ready_fds) \in handlers THEN Head(thr.ready_fds) ELSE cur
    /\ ev' = NoEvent
    /\ UNCHANGED <<handlers, sess>>

\* Line 61: func(fd).  The callback returns; what it does to the reactor is
\* nothing, an addFdToReactor (as handle_listener) or a removeFdFromReactor
\* (as handle_client).
reactor_call ==
    /\ thr.pc = "l61"
    /\ thr' = [thr EXCEPT !.pc = "l50"]
    /\ ev' = [fd |-> cur, resp |-> "func"]
    /\ cur' = 0
    /\ \/ UNCHANGED <<handlers, sess>>
       \/ \E fd \in ReactorFds : addFdToReactor(fd)
       \/ \E fd \in ReactorFds : removeFdFromReactor(fd)

\* stopReactor line 90: running = false.
stopReactor_flag ==
    /\ thr.stop = "no"
    /\ thr' = [thr EXCEPT !.running = FALSE, !.stop = "flagged"]
    /\ ev' = NoEvent
    /\ UNCHANGED <<handlers, cur, sess>>

\* Lines 91-93: loopThread.join() returns when reactorLoop has returned.
stopReactor_join ==
    /\ thr.stop = "flagged"
    /\ thr.pc = "exited"
    /\ thr' = [thr EXCEPT !.stop = "joined"]
    /\ ev' = NoEvent
    /\ UNCHANGED <<handlers, cur, sess>>

\* Lines 94-95: delete reactor; return 0.
stopReactor_return ==
    /\ thr.stop = "joined"
    /\ thr' = [thr EXCEPT !.stop = "returned"]
    /\ handlers' = {}
    /\ sess' = [sess EXCEPT !.ret = 0]
    /\ ev' = NoEvent
    /\ UNCHANGED cur

RWhile == reactor_while /\ UnchangedByReactor
RFdset == reactor_fdset /\ UnchangedByReactor
RSelect == reactor_select /\ UnchangedByReactor
RCollect == reactor_collect /\ UnchangedByReactor
RLookup == reactor_lookup /\ UnchangedByReactor
RCall == reactor_call /\ UnchangedByReactor
\* The other thread calls into the reactor until it has called stopReactor.
RAdd ==
    /\ thr.stop = "no"
    /\ \E fd \in ReactorFds : fd \notin handlers /\ addFdToReactor(fd)
    /\ ev' = NoEvent
    /\ UNCHANGED <<thr, cur>>
    /\ UnchangedByReactor
RRemove ==
    /\ thr.stop = "no"
    /\ \E fd \in handlers : removeFdFromReactor(fd)
    /\ ev' = NoEvent
    /\ UNCHANGED <<thr, cur>>
    /\ UnchangedByReactor
RStop == stopReactor_flag /\ UnchangedByReactor
RJoin == stopReactor_join /\ UnchangedByReactor
RReturn == stopReactor_return /\ UnchangedByReactor

LoopStep == RWhile \/ RFdset \/ RSelect \/ RCollect \/ RLookup \/ RCall

NextReactor ==
    \/ RWhile \/ RFdset \/ RSelect \/ RCollect \/ RLookup \/ RCall
    \/ RAdd \/ RRemove \/ RStop \/ RJoin \/ RReturn

SpecReactor == InitReactor /\ [][NextReactor]_vars

\* The loop thread is scheduled and its callbacks return (every step of the
\* loop is taken in the end: select waits one second at most, the sleep a
\* tenth), and so is the thread in stopReactor.
FairReactor ==
    /\ SpecReactor
    /\ WF_vars(LoopStep)
    /\ WF_vars(RJoin)
    /\ WF_vars(RReturn)

----------------------------------------------------------------------------
(* The monitored server (SpecMonitor): the commands that change or read    *)
(* point_set, and area_monitor_thread.                                     *)
(*                                                                         *)
(* thr is here the record of the monitor thread: pc (the line it is at),   *)
(* area (its local), at_least_100 (the global only this thread touches)    *)
(* and pending, which is history: a CH was answered and the monitor has    *)
(* not evaluated the area since.  out is what the monitor has printed.     *)
(* The handlers and the block of the monitor that reads point_set hold     *)
(* graph_mutex from their first line to their last: each is one step.      *)

\* Newpoint is sent only while point_set holds fewer points than this.
MaxMonitorPoints == 3
\* CH is sent only while the monitor has printed fewer messages than this.
MaxPrints == 3

\* The texts "0,0", "20,0" and "0,10": a triangle of area 100.
MonitorArgs == {<<"0", ",", "0">>, <<"2", "0", ",", "0">>, <<"0", ",", "1", "0">>}

\* 100.0 in the unit of compute_area.
Threshold100 == 20000

MsgAtLeast == "At Least 100 units belongs to CH"
MsgNoLonger == "At Least 100 units no longer belongs to CH"

InitMonitor ==
    /\ point_set = <<>>
    /\ temp_points = <<>>
    /\ waiting_for_graph = FALSE
    /\ points_to_read = 0
    /\ newgraph_owner_fd = -1
    /\ clients = <<>>
    /\ peer = [fd \in Fds |-> "free"]
    /\ net = [fd \in Fds |-> <<>>]
    /\ ev = NoEvent
    /\ sess = [c \in Fds \cup Threads |-> NoSession]
    /\ sent = 0
    /\ rcvd = NoReads
    /\ lines = <<>>
    /\ out = <<>>
    /\ before = <<>>
    /\ hull = <<>>
    /\ handlers = {}
    /\ cur = 0
    /\ thr = [pc |-> "l329", area |-> 0, at_least_100 |-> FALSE, pending |-> FALSE]
    /\ graph_mutex = 0

UnchangedByMonitor ==
    UNCHANGED <<temp_points, waiting_for_graph, points_to_read, newgraph_owner_fd, clients,
                handlers, cur, peer, net, graph_mutex, sess, sent, rcvd, lines, before, hull>>

\* pthread_cond_signal(&cond): a thread blocked in pthread_cond_wait is woken;
\* with no thread blocked the call has no effect.
pthread_cond_signal(m) == IF m.pc = "waiting" THEN [m EXCEPT !.pc = "l331"] ELSE m

\* handle_newpoint of the monitored server.
MNewpoint ==
    /\ Len(point_set) < MaxMonitorPoints
    /\ \E a \in MonitorArgs :
           /\ point_set' = handle_newpoint(G, a).g.point_set
           /\ ev' = [fd |-> StreamFd, resp |-> handle_newpoint(G, a).resp]
    /\ UNCHANGED <<thr, out>>
    /\ UnchangedByMonitor

\* handle_removepoint of the monitored server.
MRemovepoint ==
    /\ \E a \in MonitorArgs :
           /\ point_set' = handle_removepoint(G, a).g.point_set
           /\ point_set' # point_set
           /\ ev' = [fd |-> StreamFd, resp |-> handle_removepoint(G, a).resp]
    /\ UNCHANGED <<thr, out>>
    /\ UnchangedByMonitor

\* handle_ch of the monitored server: the area is computed, the condition
\* variable is signalled, the area is the response.
MCh ==
    /\ Len(out) < MaxPrints
    /\ thr' = [pthread_cond_signal(thr) EXCEPT !.pending = TRUE]
    /\ ev' = [fd |-> StreamFd, resp |-> handle_ch(G).resp]
    /\ UNCHANGED <<point_set, out>>
    /\ UnchangedByMonitor

\* Lines 329-330: the monitor locks cond_mutex and blocks in pthread_cond_wait.
monitor_wait ==
    /\ thr.pc = "l329"
    /\ thr' = [thr EXCEPT !.pc = "waiting"]
    /\ ev' = NoEvent
    /\ UNCHANGED <<point_set, out>>
    /\ UnchangedByMonitor

\* pthread_cond_wait may return without a signal (a spurious wakeup).
monitor_spurious ==
    /\ thr.pc = "waiting"
    /\ Len(out) < MaxPrints
    /\ thr' = [thr EXCEPT !.pc = "l331"]
    /\ ev' = NoEvent
    /\ UNCHANGED <<point_set, out>>
    /\ UnchangedByMonitor

\* Lines 331-339: the area of the hull of point_set, under graph_mutex.
monitor_evaluate ==
    /\ thr.pc = "l331"
    /\ thr' = [thr EXCEPT !.pc = "l342",
                          !.area = compute_area(compute_convex_hull_deque(point_set)),
                          !.pending = FALSE]
    /\ ev' = NoEvent
    /\ UNCHANGED <<point_set, out>>
    /\ UnchangedByMonitor

\* A monitor that prints what the area is, whatever it printed last.
message_without_flag(area, flag) == IF area >= Threshold100 THEN MsgAtLeast ELSE MsgNoLonger

\* Lines 342-348: the message printed for this area and this at_least_100, ""
\* when nothing is printed.
monitor_message(area, flag) ==
    IF area >= Threshold100 /\ ~flag THEN MsgAtLeast
    ELSE IF area < Threshold100 /\ flag THEN MsgNoLonger
    ELSE ""

\* Lines 341-348: at_least_100 is set to what was printed.
monitor_compare ==
    /\ thr.pc = "l342"
    /\ \E m \in {monitor_message(thr.area, thr.at_least_100)} :
           /\ out' = IF m = "" THEN out ELSE Append(out, m)
           /\ thr' = [thr EXCEPT !.pc = "l329",
                                 !.at_least_100 = IF m = "" THEN @ ELSE m = MsgAtLeast]
    /\ ev' = NoEvent
    /\ UNCHANGED point_set
    /\ UnchangedByMonitor

MonitorStep == monitor_wait \/ monitor_evaluate \/ monitor_compare

NextMonitor ==
    \/ MNewpoint \/ MRemovepoint \/ MCh
    \/ monitor_wait \/ monitor_spurious \/ monitor_evaluate \/ monitor_compare

SpecMonitor == InitMonitor /\ [][NextMonitor]_vars

\* The monitor thread is scheduled: it reaches pthread_cond_wait, and once
\* woken it evaluates and compares.  Nothing makes a peer send.
FairMonitor == SpecMonitor /\ WF_vars(MonitorStep)

----------------------------------------------------------------------------
(* The three implementations of the hull and of the area (SpecVariants):   *)
(* std::vector (part1), std::deque and std::list (part2).  Each call       *)
(* computes the hull of point_set and the area of that hull, as the CH     *)
(* command of each program does.  hull is here the calls made: for each    *)
(* variant called, the hull it returned and the area.                      *)

\* Point sequences of SpecVariants hold at most this many points.
MaxVariantPoints == 4

\* What a call of a compute_area returned: the value (in units of 1/200), nan
\* when the double is not a number, and ub when the call read an element the
\* container does not hold.
AreaValue(a) == [area |-> a, nan |-> FALSE, ub |-> FALSE]

\* while (k >= least && cross(hull[k - 2], hull[k - 1], p) <= 0) k--;
RECURSIVE VectorPop(_, _, _, _)
VectorPop(h, k, least, p) ==
    IF k >= least /\ cross(h[k - 1], h[k], p) <= 0
    THEN VectorPop(h, k - 1, least, p)
    ELSE k

\* for (int i = 0; i < n; ++i) { while ... k--; hull[k++] = points[i]; }
\* (hull[j] of the code is h[j + 1], and i the 1-based index)
RECURSIVE VectorLower(_, _, _)
VectorLower(pts, i, hk) ==
    IF i > Len(pts) THEN hk
    ELSE The({VectorLower(pts, i + 1, [h |-> [hk.h EXCEPT ![k + 1] = pts[i]], k |-> k + 1]) :
              k \in {VectorPop(hk.h, hk.k, 2, pts[i])}})

\* for (int i = n - 2, t = k + 1; i >= 0; --i) { while (k >= t ...) k--; hull[k++] = points[i]; }
RECURSIVE VectorUpper(_, _, _, _)
VectorUpper(pts, i, t, hk) ==
    IF i < 1 THEN hk
    ELSE The({VectorUpper(pts, i - 1, t, [h |-> [hk.h EXCEPT ![k + 1] = pts[i]], k |-> k + 1]) :
              k \in {VectorPop(hk.h, hk.k, t, pts[i])}})

\* std::vector<Point> compute_convex_hull(std::vector<Point> points):
\* hull(2 * n) holds 2n points (0,0); hull.resize(k - 1) is returned.
compute_convex_hull(points) ==
    IF Len(points) <= 1 THEN points
    ELSE The({The({SubSeq(full.h, 1, full.k - 1) :
                   full \in {VectorUpper(pts, Len(pts) - 1, lower.k + 1, lower)}}) :
              lower \in {VectorLower(SortPoints(points), 1,
                                     [h |-> [j \in 1..(2 * Len(points)) |-> Point(0, 0)],
                                      k |-> 0])},
              pts \in {SortPoints(points)}})

\* The list variant's loop: while (hull.size() >= least) { if (cross > 0) break; hull.pop_back(); }
\* (the expression of lines 37 and 49 is cross(*it1, *it2, p))
RECURSIVE ListPop(_, _, _)
ListPop(h, least, p) ==
    IF Len(h) >= least /\ ~(cross(h[Len(h) - 1], h[Len(h)], p) > 0)
    THEN ListPop(SubSeq(h, 1, Len(h) - 1), least, p)
    ELSE h

\* for (const auto& p : points) { while (hull.size() >= 2) ...; hull.push_back(p); }
RECURSIVE ListLower(_, _, _)
ListLower(pts, i, h0) ==
    IF i > Len(pts) THEN h0
    ELSE The({ListLower(pts, i + 1, h) : h \in {Append(ListPop(h0, 2, pts[i]), pts[i])}})

\* for (it = points.rbegin(); it != points.rend(); ++it)
\*     { while (hull.size() > lower_size) ...; hull.push_back(*it); }
RECURSIVE ListUpper(_, _, _, _)
ListUpper(pts, i, lower_size, h0) ==
    IF i < 1 THEN h0
    ELSE The({ListUpper(pts, i - 1, lower_size, h) :
              h \in {Append(ListPop(h0, lower_size + 1, pts[i]), pts[i])}})

\* The list variant with hull.size() >= lower_size as the test of its second
\* loop: the point pushed twice is popped, and the lower chain after it.
hull_list_pops_lower_chain(input) ==
    IF Len(input) <= 1 THEN input
    ELSE The({The({The({SubSeq(full, 1, Len(full) - 1) :
                        full \in {ListUpper(pts, Len(pts), Len(lower) - 1, lower)}}) :
                   lower \in {ListLower(pts, 1, <<>>)}}) :
              pts \in {SortPoints(input)}})

\* std::list<Point> compute_convex_hull_list(std::list<Point> input)
compute_convex_hull_list(input) ==
    IF Len(input) <= 1 THEN input
    ELSE The({The({The({SubSeq(full, 1, Len(full) - 1) :
                        full \in {ListUpper(pts, Len(pts), Len(lower), lower)}}) :
                   lower \in {ListLower(pts, 1, <<>>)}}) :
              pts \in {SortPoints(input)}})

\* The loop of the list variant's compute_area: it1 and it2 = next(it1) run
\* over the consecutive pairs until it2 is end().
RECURSIVE ListPairSum(_, _)
ListPairSum(polygon, i) ==
    IF i + 1 > Len(polygon) THEN 0
    ELSE (polygon[i].x * polygon[i + 1].y - polygon[i + 1].x * polygon[i].y)
         + ListPairSum(polygon, i + 1)

\* double compute_area(const std::list<Point>&): the outcomes of a call.  On an
\* empty list std::next(polygon.begin()) steps past end() and polygon.back()
\* and polygon.front() are read although the list holds no element: the
\* behaviour is undefined.  Both reads being of the same storage, the term is
\* x * y - x * y of whatever lies there: 0, or not a number.
compute_area_list(polygon) ==
    IF polygon = <<>>
    THEN {[area |-> 0, nan |-> FALSE, ub |-> TRUE], [area |-> 0, nan |-> TRUE, ub |-> TRUE]}
    ELSE {AreaValue(Abs(ListPairSum(polygon, 1)
                        + (polygon[Len(polygon)].x * polygon[1].y
                           - polygon[1].x * polygon[Len(polygon)].y)))}

InitVariants ==
    /\ point_set \in SeqsUpTo(GridPoints, MaxVariantPoints)
    /\ temp_points = <<>>
    /\ waiting_for_graph = FALSE
    /\ points_to_read = 0
    /\ newgraph_owner_fd = -1
    /\ clients = <<>>
    /\ peer = [fd \in Fds |-> "free"]
    /\ net = [fd \in Fds |-> <<>>]
    /\ ev = NoEvent
    /\ sess = [c \in Fds \cup Threads |-> NoSession]
    /\ sent = 0
    /\ rcvd = NoReads
    /\ lines = <<>>
    /\ out = <<>>
    /\ before = <<>>
    /\ hull = <<>>
    /\ handlers = {}
    /\ cur = 0
    /\ thr = [t \in Threads |-> NoThread]
    /\ graph_mutex = 0

Called(v) == v \in DOMAIN hull

UnchangedByVariants ==
    UNCHANGED <<shared, clients, handlers, cur, peer, net, thr, graph_mutex, sess,
                sent, rcvd, lines, out, before, ev>>

\* CH of the vector program.
CallVector ==
    /\ ~Called("vector")
    /\ \E h \in {compute_convex_hull(point_set)} :
           hull' = hull @@ ("vector" :> [ret |-> h, area |-> AreaValue(compute_area(h))])
    /\ UnchangedByVariants

\* CH of the deque program.
CallDeque ==
    /\ ~Called("deque")
    /\ \E h \in {compute_convex_hull_deque(point_set)} :
           hull' = hull @@ ("deque" :> [ret |-> h, area |-> AreaValue(compute_area(h))])
    /\ UnchangedByVariants

\* CH of the list program.
CallList ==
    /\ ~Called("list")
    /\ \E h \in {compute_convex_hull_list(point_set)} :
           \E a \in compute_area_list(h) :
               hull' = hull @@ ("list" :> [ret |-> h, area |-> a])
    /\ UnchangedByVariants

NextVariants == CallVector \/ CallDeque \/ CallList

SpecVariants == InitVariants /\ [][NextVariants]_vars

\* The step is a turn of the line loop of handle_client, and CurLine the line it
\* cuts off inbuf.
LineStep == cur # 0 /\ clients' # clients
CurLine == SubSeq(clients[cur], 1, Find(clients[cur], NL))
CurText == trim_crlf(CurLine)
IsPointText(t) == HasComma(t) /\ BothNumbers(t)

----------------------------------------------------------------------------
(* Properties of the reactor server (Spec).                                *)

\* C1: while an upload is pending, every non-empty line of a connection other
\* than the owner is answered exactly 'BUSY' and leaves point_set, temp_points,
\* points_to_read and newgraph_owner_fd (and the pending flag) as they were.
C1_BusyForOthers ==
    [][(LineStep /\ waiting_for_graph /\ cur # newgraph_owner_fd /\ CurText # <<>>)
          => (ev' = [fd |-> cur, resp |-> "BUSY"] /\ UNCHANGED shared)]_vars

\* A line of a non-owner has just been answered 'BUSY' while points were buffered.
C1_Witness ==
    /\ ev.resp = "BUSY"
    /\ waiting_for_graph
    /\ ev.fd \in Fds \ {newgraph_owner_fd}
    /\ temp_points # <<>>

\* C10: every non-empty line of the owner of a pending upload is taken as an
\* 'x,y' point: one that is not a valid point (a command keyword included) is
\* answered 'ERROR: Invalid point format.' or 'ERROR: Invalid point values.' and
\* changes nothing; a valid one is answered 'OK' or 'GRAPH_LOADED'.
C10_OwnerLinesArePoints ==
    [][(LineStep /\ waiting_for_graph /\ cur = newgraph_owner_fd /\ CurText # <<>>)
          => /\ ev'.fd = cur
             /\ IF IsPointText(CurText)
                THEN ev'.resp \in {"OK", "GRAPH_LOADED"}
                ELSE /\ ev'.resp = (IF HasComma(CurText)
                                    THEN "ERROR: Invalid point values."
                                    ELSE "ERROR: Invalid point format.")
                     /\ UNCHANGED shared]_vars

\* The owner has sent 'Newpoint 1,2' or 'Removepoint 1,2' with a point buffered
\* and was answered that the point's values are invalid.
C10_Witness ==
    /\ ev.resp = "ERROR: Invalid point values."
    /\ waiting_for_graph
    /\ ev.fd = newgraph_owner_fd
    /\ temp_points # <<>>

SessionCleared == ~waiting_for_graph /\ newgraph_owner_fd = -1 /\ temp_points = <<>>

\* The upload sessions of the reactor server, where process_line and the
\* disconnect branch run one after the other on the loop thread: what C2 to C6
\* say of a session holds there.
ReactorSessionKept ==
    \A fd \in Fds :
        sess[fd].n > 0 =>
            /\ waiting_for_graph /\ newgraph_owner_fd = fd
            /\ point_set = sess[fd].prior
            /\ temp_points = sess[fd].pts
            /\ points_to_read = sess[fd].n - Len(sess[fd].pts)
            /\ \A o \in Fds \ {fd} : sess[o].n = 0

ReactorUploadCompletes ==
    [][(LineStep /\ sess[cur].n > 0 /\ IsPointText(CurText)) =>
          IF Len(sess[cur].pts) + 1 < sess[cur].n
          THEN ev'.resp = "OK" /\ point_set' = point_set
          ELSE /\ ev'.resp = "GRAPH_LOADED"
               /\ point_set' = Append(sess[cur].pts, PointOf(CurText))
               /\ SessionCleared']_vars

ReactorDisconnect ==
    [][\A fd \in Fds :
          (fd \in handlers /\ fd \notin handlers') =>
              IF sess[fd].n > 0
              THEN point_set' = sess[fd].prior /\ SessionCleared'
              ELSE UNCHANGED shared]_vars

----------------------------------------------------------------------------
(* Properties of one connection's byte stream (SpecStream).                *)

\* The line loop of handle_client run to its end on buf: the state it leaves,
\* the responses it has sent after outs, and what stays in inbuf.
RECURSIVE RunLines(_, _, _, _)
RunLines(g, fd, buf, outs) ==
    IF Find(buf, NL) = 0 THEN [g |-> g, out |-> outs, rest |-> buf]
    ELSE The({RunLines(lr[1].g, fd, lr[2],
                       IF lr[1].resp = "" THEN outs ELSE Append(outs, lr[1].resp)) :
                 lr \in {<<process_line(g, fd, SubSeq(buf, 1, Find(buf, NL))),
                           Tail2(buf, Find(buf, NL) + 1)>>}})

\* The shared state a server starts with.
InitG ==
    [point_set |-> <<>>, temp_points |-> <<>>, waiting_for_graph |-> FALSE,
     points_to_read |-> 0, newgraph_owner_fd |-> -1]

RECURSIVE Flatten(_)
Flatten(ls) == IF ls = <<>> THEN <<>> ELSE ls[1] \o Flatten(Tail(ls))

\* Nothing but whitespace and the line terminator.
IsBlank(l) == \A i \in 1..Len(l) : IsSpace(l[i])

NonBlank(ls) == SelectSeq(ls, LAMBDA l : ~IsBlank(l))

C9_SplitIndependent ==
    StreamFd \in DOMAIN clients =>
        RunLines(G, StreamFd, clients[StreamFd], out)
            = RunLines(InitG, StreamFd, rcvd.bytes, <<>>)

\* Three lines were answered although one read ended inside a line and another
\* held several newlines.
C9_Witness ==
    /\ rcvd.partial /\ rcvd.several
    /\ cur = 0
    /\ out = <<"OK", "OK", "GRAPH_LOADED">>
    /\ point_set = <<Point(10, 20), Point(10, 20)>>

----------------------------------------------------------------------------
(* Properties of the thread-per-connection server (SpecWorkers).           *)

\* The step takes thread t out of process_line with an answer to thr[t].line.
Answers(t) == thr[t].pc \in {"l153", "l157", "in_point", "in_cmd"} /\ thr'[t].pc = "recv"
\* The step is the disconnect cleanup of thread t.
CleansUp(t) == thr[t].pc = "cleanup" /\ thr'[t].pc = "done"
\* The connection of thread t was answered 'OK' to a Newgraph, has not sent its
\* n-th valid point since, and is still open on the server's side.
Uploading(t) == sess[t].n > 0 /\ thr[t].pc \notin {"idle", "closed", "cleanup", "done"}
InCritical(t) == thr[t].pc \in {"in_point", "in_cmd", "cleanup"}

\* C2: while the upload a connection was granted by 'OK' to its Newgraph is
\* pending (until its n-th valid point or its disconnect), no line of another
\* connection is answered 'OK' to a Newgraph, and whatever another connection is
\* answered, the first stays the owner.
C2_OneUploadSession ==
    [][\A a, b \in Threads :
          (a # b /\ Uploading(a) /\ Answers(b)) =>
              /\ ~(Command(thr[b].line) = KwNewgraph /\ ev'.resp = "OK")
              /\ waiting_for_graph'
              /\ newgraph_owner_fd' = thr[a].fd]_vars

\* C3: of the n valid points a connection sends after 'OK' to 'Newgraph n', the
\* first n-1 are answered 'OK' and the n-th 'GRAPH_LOADED', and then point_set is
\* those n points in order, temp_points is empty, and no upload is pending.
C3_UploadCompletes ==
    [][\A t \in Threads :
          (Answers(t) /\ sess[t].n > 0 /\ IsPointText(thr[t].line)) =>
              IF Len(sess[t].pts) + 1 < sess[t].n
              THEN ev'.resp = "OK"
              ELSE /\ ev'.resp = "GRAPH_LOADED"
                   /\ point_set' = Append(sess[t].pts, PointOf(thr[t].line))
                   /\ SessionCleared']_vars

\* C4: while the upload of a connection is pending, point_set is what it was at
\* the 'OK' to Newgraph; each of its first n-1 valid points changes temp_points
\* and points_to_read only, and the n-th replaces point_set by temp_points with
\* that point.
C4_PointSetKeptUntilSwap ==
    /\ [](\A t \in Threads : Uploading(t) => point_set = sess[t].prior)
    /\ [][\A t \in Threads :
              (Answers(t) /\ Uploading(t) /\ IsPointText(thr[t].line)) =>
                  IF Len(sess[t].pts) + 1 < sess[t].n
                  THEN /\ point_set' = point_set
                       /\ temp_points' = Append(temp_points, PointOf(thr[t].line))
                       /\ points_to_read' = points_to_read - 1
                       /\ UNCHANGED <<waiting_for_graph, newgraph_owner_fd>>
                  ELSE point_set' = Append(temp_points, PointOf(thr[t].line))]_vars

\* C5: when the owner disconnects with its upload pending, the cleanup leaves
\* point_set as it was before the Newgraph, temp_points empty and no owner, so
\* that no connection is busy for a Newgraph that follows.
C5_OwnerDisconnectDiscards ==
    [][\A t \in Threads :
          (CleansUp(t) /\ sess[t].n > 0 /\ waiting_for_graph
                 /\ newgraph_owner_fd = thr[t].fd) =>
              /\ point_set' = sess[t].prior
              /\ SessionCleared'
              /\ \A fd \in Fds : ~is_busy_for_fd(G', fd)]_vars

\* C6: the cleanup of a connection that holds no pending upload changes nothing
\* of the shared state; that of the owner clears the session and keeps point_set.
C6_OnlyOwnerDisconnectClears ==
    [][\A t \in Threads :
          CleansUp(t) =>
              IF sess[t].n = 0
              THEN UNCHANGED shared
              ELSE (waiting_for_graph /\ newgraph_owner_fd = thr[t].fd)
                      => (SessionCleared' /\ point_set' = point_set)]_vars

\* C7: at most one thread is inside a critical section, it is the holder of
\* graph_mutex, and the shared state changes only in a step of that thread, which
\* ends its critical section.
C7_MutualExclusion ==
    /\ [](\A a, b \in Threads : (InCritical(a) /\ InCritical(b)) => a = b)
    /\ [](\A t \in Threads : InCritical(t) <=> graph_mutex = t)
    /\ [][shared' # shared =>
            /\ graph_mutex \in Threads
            /\ InCritical(graph_mutex)
            /\ graph_mutex' = 0]_vars

\* A thread is computing the hull under the mutex while another waits for the
\* mutex with a Newpoint.
C7_Witness ==
    \E a, b \in Threads :
        /\ thr[a].pc = "in_cmd" /\ thr[a].line = KwCH
        /\ thr[b].pc = "cmd" /\ Command(thr[b].line) = KwNewpoint

----------------------------------------------------------------------------
(* Properties of the command grammar (SpecCommands).                       *)

\* s without the whitespace at its two ends.
RECURSIVE StripRight(_)
StripRight(s) ==
    IF s # <<>> /\ IsSpace(s[Len(s)]) THEN StripRight(SubSeq(s, 1, Len(s) - 1)) ELSE s
Strip(s) == StripRight(Tail2(s, LeadingSpaces(s) + 1))

\* b is digits with at most one point among them, and at least one digit.
IsDecimal(b) ==
    /\ \A i \in 1..Len(b) : IsDigit(b[i]) \/ b[i] = "."
    /\ Cardinality({i \in 1..Len(b) : b[i] = "."}) <= 1
    /\ \E i \in 1..Len(b) : IsDigit(b[i])

\* s, whitespace around it aside, is a number written in decimal: an optional
\* sign and a decimal.
IsNumeralText(s) == IsDecimal(Unsigned(Strip(s)))

\* s is a numeral of a value that is not positive.
IsNonPositiveText(s) ==
    /\ IsNumeralText(s)
    /\ \/ Strip(s)[1] = "-"
       \/ \A i \in 1..Len(Strip(s)) : ~IsDigit(Strip(s)[i]) \/ Strip(s)[i] = "0"

\* s, whitespace around it aside, is a positive integer from end to end.
IsPositiveIntegerText(s) ==
    \E b \in {IF Strip(s) # <<>> /\ Strip(s)[1] = "+" THEN Tail(Strip(s)) ELSE Strip(s)} :
        /\ b # <<>>
        /\ \A i \in 1..Len(b) : IsDigit(b[i])
        /\ \E i \in 1..Len(b) : b[i] # "0"

\* The two sides of the first comma of s.
LeftOf(s) == SubSeq(s, 1, Find(s, ",") - 1)
RightOf(s) == Tail2(s, Find(s, ",") + 1)

\* The step answers the line in hand of an idle server with resp and changes
\* nothing of the shared state.
Rejected(resp) == ev' = [fd |-> cur, resp |-> resp] /\ UNCHANGED shared

\* C11: with no upload pending, a Newpoint or Removepoint whose argument has no
\* comma is answered 'ERROR: Invalid format.', one with a side that is not a
\* number 'ERROR: Invalid values.', and a Newgraph whose count is not a number
\* or not positive 'ERROR: Invalid number.'; each leaves point_set, the flag, the
\* owner, the count and the buffer as they were.
C11_MalformedCommandRejected ==
    [][(LineStep /\ ~waiting_for_graph) =>
          \E cmd \in {Command(CurText)}, args \in {Args(CurText)} :
              /\ (cmd \in {KwNewpoint, KwRemovepoint} /\ ~HasComma(args))
                    => Rejected("ERROR: Invalid format.")
              /\ (cmd \in {KwNewpoint, KwRemovepoint} /\ HasComma(args)
                      /\ ~(IsNumeralText(LeftOf(args)) /\ IsNumeralText(RightOf(args))))
                    => Rejected("ERROR: Invalid values.")
              /\ (cmd = KwNewgraph /\ (~IsNumeralText(args) \/ IsNonPositiveText(args)))
                    => Rejected("ERROR: Invalid number.")]_vars

\* What C11 says, but for the counts that begin with an integer and go on.
MalformedRejectedButPrefixCounts ==
    [][(LineStep /\ ~waiting_for_graph) =>
          \E cmd \in {Command(CurText)}, args \in {Args(CurText)} :
              /\ (cmd \in {KwNewpoint, KwRemovepoint} /\ ~HasComma(args))
                    => Rejected("ERROR: Invalid format.")
              /\ (cmd \in {KwNewpoint, KwRemovepoint} /\ HasComma(args)
                      /\ ~(IsNumeralText(LeftOf(args)) /\ IsNumeralText(RightOf(args))))
                    => Rejected("ERROR: Invalid values.")
              /\ (cmd = KwNewgraph /\ (~IsNumeralText(args) \/ IsNonPositiveText(args))
                      /\ ~(Unsigned(Strip(args)) # <<>> /\ IsDigit(Unsigned(Strip(args))[1])
                             /\ ~IsNonPositiveText(SubSeq(Unsigned(Strip(args)), 1,
                                                         LeadingDigits(Unsigned(Strip(args)))))))
                    => Rejected("ERROR: Invalid number.")]_vars

\* C12: with no upload pending, a Newgraph whose argument is not a positive
\* integer from end to end is answered 'ERROR: Invalid number.' and starts no
\* upload.
C12_NewgraphCountIsWholeInteger ==
    [][(LineStep /\ ~waiting_for_graph /\ Command(CurText) = KwNewgraph
           /\ ~IsPositiveIntegerText(Args(CurText)))
          => (Rejected("ERROR: Invalid number.") /\ ~waiting_for_graph')]_vars

----------------------------------------------------------------------------
(* Invalid point lines during an upload.                                   *)

\* t is 'x,y' with two numbers.
ValidPointText(t) ==
    HasComma(t) /\ IsNumeralText(LeftOf(t)) /\ IsNumeralText(RightOf(t))

\* The answer the spec documents for a line that is no valid point.
PointError(t) ==
    IF HasComma(t) THEN "ERROR: Invalid point values." ELSE "ERROR: Invalid point format."

\* C13: a line that is no valid point, sent by a connection whose upload is
\* pending, is answered 'ERROR: Invalid point format.' (no comma) or 'ERROR:
\* Invalid point values.', and leaves the count, the buffer, the flag and the
\* owner as they were: the buffer holds the valid points sent so far and the
\* count is what is left of n, so that the n-th valid point loads the graph.
C13_InvalidPointKeepsUpload ==
    [][\A t \in Threads :
          (Answers(t) /\ Uploading(t) /\ ~ValidPointText(thr[t].line)) =>
              /\ ev' = [fd |-> thr[t].fd, resp |-> PointError(thr[t].line)]
              /\ UNCHANGED shared
              /\ waiting_for_graph /\ newgraph_owner_fd = thr[t].fd
              /\ temp_points = sess[t].pts
              /\ points_to_read = sess[t].n - Len(sess[t].pts)
              /\ sess'[t] = sess[t]]_vars

\* The same of the reactor server.
ReactorInvalidPointKeepsUpload ==
    /\ [][(LineStep /\ sess[cur].n > 0 /\ CurText # <<>> /\ ~ValidPointText(CurText)) =>
              /\ ev' = [fd |-> cur, resp |-> PointError(CurText)]
              /\ UNCHANGED shared
              /\ waiting_for_graph /\ newgraph_owner_fd = cur
              /\ temp_points = sess[cur].pts
              /\ points_to_read = sess[cur].n - Len(sess[cur].pts)
              /\ sess'[cur] = sess[cur]]_vars
    /\ [][(LineStep /\ sess[cur].n > 0 /\ ValidPointText(CurText)
                /\ Len(sess[cur].pts) + 1 = sess[cur].n) =>
              ev'.resp = "GRAPH_LOADED"]_vars

----------------------------------------------------------------------------
(* Newpoint, Removepoint and unknown commands (SpecCommands).              *)

\* s is a number written in decimal from its first character to its last.
IsExactNumeral(s) == IsDecimal(Unsigned(s))

\* args is 'x,y' with two numbers.
ValidCoordinates(args) ==
    HasComma(args) /\ IsExactNumeral(LeftOf(args)) /\ IsExactNumeral(RightOf(args))

\* a is b with some of its elements left out.
RECURSIVE IsSubsequence(_, _)
IsSubsequence(a, b) ==
    IF a = <<>> THEN TRUE
    ELSE IF b = <<>> THEN FALSE
    ELSE IF a[1] = b[1] THEN IsSubsequence(Tail(a), Tail(b))
    ELSE IsSubsequence(a, Tail(b))

Occurrences(s, p) == Cardinality({i \in 1..Len(s) : s[i] = p})

\* The step is a command of an idle server, cmd with well-formed coordinates.
ValidCommandStep(cmd) ==
    /\ LineStep
    /\ ~waiting_for_graph
    /\ Command(CurText) = cmd
    /\ ValidCoordinates(Args(CurText))

C15_NewpointAppends ==
    [][ValidCommandStep(KwNewpoint) =>
          /\ ev' = [fd |-> cur, resp |-> "OK"]
          /\ point_set' = Append(point_set, PointOf(Args(CurText)))
          /\ CurLine = LnNewpoint12 => point_set' = Append(point_set, Point(10, 20))
          /\ UNCHANGED <<temp_points, waiting_for_graph, points_to_read,
                         newgraph_owner_fd>>]_vars

\* 'Newpoint 1,2' was just answered 'OK' by a server that held (1,2) already,
\* and point_set holds it twice.
C15_Witness ==
    /\ lines = <<LnNewpoint12>>
    /\ ev.resp = "OK"
    /\ before # <<>>
    /\ before[1].point_set = <<Point(10, 20)>>
    /\ point_set = <<Point(10, 20), Point(10, 20)>>

\* C18: with no upload pending, a line that is not empty and whose first word
\* is none of Newgraph, Newpoint, Removepoint and CH, letter case included, is
\* answered 'ERROR: Unknown command.' and changes nothing.
C18_UnknownCommandRejected ==
    [][(LineStep /\ ~waiting_for_graph /\ CurText # <<>>
           /\ Command(CurText) \notin {KwNewgraph, KwNewpoint, KwRemovepoint, KwCH})
          => Rejected("ERROR: Unknown command.")]_vars

\* 'ch' was just answered 'ERROR: Unknown command.' by a server with points.
C18_Witness ==
    /\ lines = <<Ln(<<"c", "h">>)>>
    /\ ev.resp = "ERROR: Unknown command."
    /\ before # <<>>
    /\ before[1].point_set # <<>>
    /\ ~before[1].waiting_for_graph

\* The line without the whitespace before its terminator.
WithoutTrailingSpace(l) == Ln(StripRight(l))

\* C19: a line with blanks or tabs before its terminator gets the response and
\* the state change of the same line without them.
C19_TrailingWhitespaceIgnored ==
    [][LineStep =>
          \E r \in {process_line(G, cur, WithoutTrailingSpace(CurLine))} :
              /\ ev'.resp = r.resp
              /\ G' = r.g]_vars

----------------------------------------------------------------------------
(* Errors and the connection (Spec).                                       *)

\* C16: a connection answered 'BUSY' or 'ERROR: ...' stays registered and open,
\* and its inbuf keeps what followed the line; a connection is registered, with
\* its inbuf, for as long as the server has not read its end of stream, so every
\* line it sends later is read.
C16_ErrorKeepsConnection ==
    /\ [](\A fd \in Fds : peer[fd] # "free" => (fd \in handlers /\ fd \in DOMAIN clients))
    /\ [][(LineStep /\ IsErrorResponse(ev'.resp)) =>
            /\ ev'.fd = cur
            /\ handlers' = handlers
            /\ cur \in handlers
            /\ peer' = peer
            /\ net' = net
            /\ DOMAIN clients' = DOMAIN clients
            /\ clients'[cur] = Tail2(clients[cur], Find(clients[cur], NL) + 1)
            /\ \A fd \in DOMAIN clients \ {cur} : clients'[fd] = clients[fd]]_vars

\* A connection that was just answered 'BUSY' is registered and open while the
\* owner's upload goes on.
C16_Witness ==
    /\ ev.resp = "BUSY"
    /\ ev.fd \in handlers
    /\ peer[ev.fd] = "open"
    /\ ev.fd \in DOMAIN clients
    /\ waiting_for_graph /\ newgraph_owner_fd \in handlers \ {ev.fd}

\* The same of one connection whose reads hold several lines: the lines after
\* the one answered with an error stay in inbuf and are answered in their turn.
StreamErrorKeepsBuffer ==
    (out # <<>> /\ IsErrorResponse(out[Len(out)]) /\ peer[StreamFd] # "free") =>
        /\ StreamFd \in handlers
        /\ Flatten(lines) \o clients[StreamFd] = rcvd.bytes

\* The same of the thread-per-connection server: the thread that answers with
\* an error is back at recv on its descriptor.
WorkerErrorKeepsConnection ==
    [][\A t \in Threads :
          (Answers(t) /\ IsErrorResponse(ev'.resp)) =>
              /\ thr'[t].pc = "recv" /\ thr'[t].fd = thr[t].fd
              /\ peer' = peer /\ net' = net /\ clients' = clients]_vars

----------------------------------------------------------------------------
(* Release of the upload when its owner is gone (FairWorkers).             *)

\* C17: when the peer of the descriptor that owns the pending upload has
\* closed, that ownership is released in the end (by the cleanup of the owner's
\* thread, by the last point the peer had still sent, or by a Newgraph of
\* another connection that takes the upload over): from some state on the gone
\* descriptor is not the owner of a pending upload, and no other descriptor is
\* busy on its account.
C17_OwnerGoneReleases ==
    \A fd \in Fds :
        (waiting_for_graph /\ newgraph_owner_fd = fd /\ peer[fd] = "eof")
            ~> ~(waiting_for_graph /\ newgraph_owner_fd = fd)

\* A thread has ended and the upload it owned was abandoned with points still
\* to come: no upload is pending, no descriptor is busy.
C17_Witness ==
    /\ \E t \in Threads : thr[t].pc = "done"
    /\ ~waiting_for_graph /\ newgraph_owner_fd = -1
    /\ points_to_read > 0
    /\ \A o \in Fds : ~is_busy_for_fd(G, o)

----------------------------------------------------------------------------
(* The hull (SpecHull).                                                    *)

Range(s) == {s[i] : i \in 1..Len(s)}

\* p lies on the segment from a to b.
OnSegment(p, a, b) ==
    /\ cross(a, b, p) = 0
    /\ (p.x - a.x) * (p.x - b.x) <= 0
    /\ (p.y - a.y) * (p.y - b.y) <= 0

\* p lies in the triangle a, b, c (its border included), which is not flat.
InTriangle(p, a, b, c) ==
    /\ cross(a, b, c) # 0
    /\ \/ cross(a, b, p) >= 0 /\ cross(b, c, p) >= 0 /\ cross(c, a, p) >= 0
       \/ cross(a, b, p) <= 0 /\ cross(b, c, p) <= 0 /\ cross(c, a, p) <= 0

\* p is a vertex of the convex hull of the point set P: it is in P and is no
\* convex combination of the other points of P.
IsHullVertex(p, P) ==
    /\ p \in P
    /\ \A a, b \in P \ {p} : ~OnSegment(p, a, b)
    /\ \A a, b, c \in P \ {p} : ~InTriangle(p, a, b, c)

\* The vertex after the i-th of the polygon h, and the one after that.
Succ1(h, i) == h[(i % Len(h)) + 1]
Succ2(h, i) == h[((i + 1) % Len(h)) + 1]

\* C20: the hull returned holds only input points, each a vertex of the convex
\* hull of the input, and holds every such vertex; with three vertices or more
\* each three consecutive ones, cyclically, make a strict left turn (counter-
\* clockwise order, no three collinear) and no input point is to the right of
\* an edge.
C20_HullIsConvexPolygon ==
    hull # <<>> =>
        \E h \in {hull[1]}, P \in {Range(point_set)} :
            /\ \A i \in 1..Len(h) : h[i] \in P /\ IsHullVertex(h[i], P)
            /\ \A p \in P : IsHullVertex(p, P) => p \in Range(h)
            /\ Len(h) >= 3 =>
                  /\ \A i \in 1..Len(h) : cross(h[i], Succ1(h, i), Succ2(h, i)) > 0
                  /\ \A i \in 1..Len(h) : \A p \in P : cross(h[i], Succ1(h, i), p) >= 0

\* The hull of four points was computed: a triangle, the fourth point being
\* inside it or on its border.
C20_Witness ==
    /\ hull # <<>>
    /\ Len(hull[1]) = 3
    /\ Cardinality(Range(point_set)) = 4

\* The hull lists no point twice, unless the input is one point given twice or
\* more: the lower chain then keeps two copies of it and the upper chain adds
\* and drops a third, so that the point is returned twice.
HullVerticesDistinct ==
    hull # <<>> =>
        \/ Cardinality(Range(hull[1])) = Len(hull[1])
        \/ /\ Cardinality(Range(point_set)) = 1
           /\ Len(point_set) >= 2
           /\ hull[1] = <<point_set[1], point_set[1]>>

----------------------------------------------------------------------------
(* The square (SpecSquare).                                                *)

\* C21: when point_set holds exactly the four corners of the square, in whatever
\* order they were loaded or added, CH is answered 100.
C21_SquareAreaIs100 ==
    [][(LineStep /\ CurText = KwCH /\ ~waiting_for_graph
        /\ Len(point_set) = 4 /\ \A p \in Square : Holds(point_set, p))
       => ev' = [fd |-> cur, resp |-> "100"]]_vars

\* CH was answered on the corners in an order that is neither clockwise nor
\* counter-clockwise.
C21_Witness ==
    /\ lines = <<LnCH>>
    /\ ev.fd = StreamFd
    /\ point_set = <<Point(100, 100), Point(0, 0), Point(100, 0), Point(0, 100)>>

----------------------------------------------------------------------------
(* Order independence (SpecHull).                                          *)

\* The ways of reordering n elements, for every n a point sequence can have.
Reorderings == [n \in 0..(MaxHullPoints + 1) |-> Permutations(1..n)]

Reordered(s) == {[i \in 1..Len(s) |-> s[f[i]]] : f \in Reorderings[Len(s)]}

Rotations(s) == {SubSeq(s, k + 1, Len(s)) \o SubSeq(s, 1, k) : k \in 0..Len(s)}

\* The points are in nondecreasing order of (x, y): the one order of its points
\* that every point sequence is a reordering of.
Nondecreasing(s) == \A i, j \in 1..Len(s) : i < j => ~PointLess(s[j], s[i])

\* C22: the area of the hull is the same for every rotation of the point
\* sequence, and for every permutation of it: all orders of the points of a
\* nondecreasing sequence, that is any two orders of the same points, give the
\* same area.
C22_AreaOrderIndependent ==
    hull # <<>> =>
        /\ \A q \in Rotations(point_set) :
               compute_area(compute_convex_hull_deque(q)) = compute_area(hull[1])
        /\ Nondecreasing(point_set) =>
               \A q \in Reordered(point_set) :
                   compute_area(compute_convex_hull_deque(q)) = compute_area(hull[1])

\* The hull was computed of four points, one of them inside the triangle of the
\* others, and its area is not zero.
C22_Witness ==
    /\ hull # <<>>
    /\ point_set = <<Point(0, 0), Point(10, 10), Point(20, 0), Point(20, 20)>>
    /\ compute_area(hull[1]) > 0

----------------------------------------------------------------------------
(* Degenerate point sets (SpecCommands).                                   *)

\* C23: CH on a point_set of no point or of one point is answered 0, the hull
\* being the point_set itself, and nothing changes.
C23_DegenerateAreaIsZero ==
    [][(LineStep /\ CurText = KwCH /\ ~waiting_for_graph /\ Len(point_set) <= 1)
       => /\ compute_convex_hull_deque(point_set) = point_set
          /\ ev' = [fd |-> cur, resp |-> "0"]
          /\ UNCHANGED shared]_vars

\* CH was the first line of the first connection to a server that holds no
\* point, and it was answered.
C23_Witness ==
    /\ lines = <<LnCH>>
    /\ before = <<[point_set |-> <<>>, temp_points |-> <<>>, waiting_for_graph |-> FALSE,
                   points_to_read |-> 0, newgraph_owner_fd |-> -1]>>
    /\ point_set = <<>>
    /\ ev = [fd |-> StreamFd, resp |-> "0"]

----------------------------------------------------------------------------
(* The busy test and the command it guards (SpecWorkers).                  *)

\* The step is the body of a Newgraph, Newpoint, Removepoint or CH of thread t,
\* run under the mutex.
RunsCommand(t) == thr[t].pc = "in_cmd" /\ thr'[t].pc = "recv"

\* C24: no Newgraph, Newpoint, Removepoint or CH of a connection runs while the
\* upload of another connection, still connected, is pending.
C24_BusyTestAtomicWithCommand ==
    [][\A a, t \in Threads :
          (a # t /\ RunsCommand(t))
              => ~(Uploading(a) /\ waiting_for_graph /\ newgraph_owner_fd = thr[a].fd)]_vars

----------------------------------------------------------------------------
(* Who contributes to an upload (SpecWorkers).                             *)

\* The step is handle_point_line of thread t taking a point into the upload.
TakesPoint(t) ==
    thr[t].pc = "in_point" /\ thr'[t].pc = "recv" /\ ev'.resp \in {"OK", "GRAPH_LOADED"}

\* C25: a point is taken into the upload buffer only from a connection that was
\* answered 'OK' to a Newgraph and has not sent all its points since, the buffer
\* holds the points that connection has sent and no other, and GRAPH_LOADED is
\* answered to that connection with point_set made of its points.
C25_OnlyOwnerContributes ==
    [][\A t \in Threads :
          TakesPoint(t) =>
              /\ sess[t].n > 0
              /\ temp_points = sess[t].pts
              /\ ev'.resp = "GRAPH_LOADED" =>
                     point_set' = Append(sess[t].pts, PointOf(thr[t].line))]_vars

----------------------------------------------------------------------------
(* The two servers compared (SpecWorkers against Spec).                    *)

\* The connection c (a descriptor of the reactor server, a thread of the
\* thread-per-connection server) is connected, was answered 'OK' to a Newgraph,
\* and has not been answered to the last of its points since.
Granted(c) ==
    /\ sess[c].n > 0
    /\ \/ c \in handlers
       \/ c \in Threads /\ thr[c].pc \notin {"idle", "closed", "cleanup", "done"}

\* C26: the thread-per-connection server answers as the reactor server does for
\* some order of the lines.  Whatever the order, the reactor server never has two
\* connections both answered 'OK' to a Newgraph and both with points to send: the
\* second Newgraph is answered 'BUSY'.
C26_AnswersAsReactor ==
    Cardinality({c \in Fds \cup Threads : Granted(c)}) <= 1

----------------------------------------------------------------------------
(* A descriptor number used again (SpecWorkers).                           *)

\* Thread t serves a connection that was given the descriptor number of a
\* connection whose thread has closed the socket and not yet ended.
OnReusedDescriptor(t) ==
    \E o \in Threads \ {t} : thr[o].fd = thr[t].fd /\ thr[o].pc \in {"closed", "cleanup"}

\* C27: a connection accepted on the descriptor number of an owner that has just
\* disconnected does not pass the owner test of process_line, and a connection
\* that was granted no upload adds no point to the upload buffer and does not
\* replace point_set.
C27_DescriptorReuseKeepsIdentity ==
    [][\A t \in Threads :
          /\ (OnReusedDescriptor(t) /\ thr[t].pc = "l157") => thr'[t].pc # "point"
          /\ (TakesPoint(t) /\ sess[t].n = 0) =>
                 /\ temp_points' = temp_points
                 /\ point_set' = point_set]_vars

----------------------------------------------------------------------------
(* The two closes of the proactor server (SpecProactor).                   *)

\* The step is the close of threadWrapper, made by thread t.
WrapperCloses(t) == thr[t].pc = "wrapper" /\ thr'[t].pc = "done"

\* C28: the close of threadWrapper finds the descriptor closed (by
\* client_thread_handler) and not open again: it closes no socket, and so never
\* that of another connection.
C28_SocketClosedOnce ==
    [][\A t \in Threads : WrapperCloses(t) => peer[thr[t].fd] = "free"]_vars

----------------------------------------------------------------------------
(* The map of input buffers (SpecWorkers).                                 *)

\* The step is thread t looking up clients[client_fd] and appending what recv
\* returned to its inbuf.
AccessesInbuf(t) ==
    /\ thr[t].pc = "recv"
    /\ net[thr[t].fd] # <<>>
    /\ net'[thr[t].fd] = <<>>

\* C29: no thread looks up its entry of clients while another thread is inside
\* the critical section that erases an entry of it.
C29_ClientsMapNotShared ==
    [][\A t, o \in Threads :
          (o # t /\ AccessesInbuf(t)) => thr[o].pc # "cleanup"]_vars

----------------------------------------------------------------------------
(* The upload flag and the owner (SpecWorkers, and Spec).                  *)

\* The descriptors of the connections the server holds open: those with a
\* handler in the reactor, those of the threads that have not closed theirs.
ConnectedFds ==
    handlers \cup {thr[t].fd : t \in {u \in Threads :
                                        thr[u].pc \notin {"idle", "closed", "cleanup", "done"}}}

\* C30: whenever the mutex is free, an upload is pending if and only if
\* newgraph_owner_fd is the descriptor of a connected client, and
\* newgraph_owner_fd is -1 if and only if no upload is pending.
C30_FlagAndOwnerAgree ==
    graph_mutex = 0 =>
        /\ waiting_for_graph <=> newgraph_owner_fd \in ConnectedFds
        /\ newgraph_owner_fd = -1 <=> ~waiting_for_graph

\* In the reactor server the flag and the owner agree between any two callbacks.
ReactorFlagAndOwnerAgree ==
    /\ waiting_for_graph <=> newgraph_owner_fd \in handlers
    /\ newgraph_owner_fd = -1 <=> ~waiting_for_graph

----------------------------------------------------------------------------
(* The counters of an upload (SpecWorkers, and Spec).                      *)

\* The descriptor of connection c: c itself in the reactor server, that of the
\* thread in the thread-per-connection server.
ConnFd(c) == IF c \in Threads THEN thr[c].fd ELSE c

\* The counts n for which the owner was answered 'OK' to 'Newgraph n'.
PendingCounts ==
    {sess[c].n : c \in {d \in Fds \cup Threads :
                            sess[d].n > 0 /\ ConnFd(d) = newgraph_owner_fd}}

\* C31: while an upload is pending, for the count n it was opened with,
\* points_to_read is in 1..n and temp_points holds n - points_to_read points;
\* while none is pending temp_points is empty.
C31_UploadCountersAgree ==
    IF waiting_for_graph
    THEN \E n \in PendingCounts :
             /\ points_to_read \in 1..n
             /\ Len(temp_points) = n - points_to_read
    ELSE temp_points = <<>>

----------------------------------------------------------------------------
(* How an upload ends (Spec).                                              *)

\* The step answers GRAPH_LOADED to the n-th valid point of the owner.
CompletesUpload ==
    /\ LineStep
    /\ cur = newgraph_owner_fd
    /\ IsPointText(CurText)
    /\ Len(sess[cur].pts) + 1 = sess[cur].n
    /\ ev' = [fd |-> cur, resp |-> "GRAPH_LOADED"]

\* The step is the disconnect branch of handle_client run for the owner.
AbandonsUpload ==
    /\ cur = 0
    /\ newgraph_owner_fd \in handlers
    /\ handlers' = handlers \ {newgraph_owner_fd}

\* C32: waiting_for_graph goes from true to false only in the step that answers
\* the owner's n-th valid point and in the disconnect of the owner; no other
\* step (a line of another connection, an invalid line of the owner, a new
\* connection, a read) ends the upload.
C32_UploadEndsByCompletionOrAbandon ==
    [][(waiting_for_graph /\ ~waiting_for_graph') => (CompletesUpload \/ AbandonsUpload)]_vars

\* An upload was abandoned with a point still to read while a second
\* connection was open, and that connection has been answered since.
C32_Witness ==
    /\ ~waiting_for_graph
    /\ point_set = <<>>
    /\ points_to_read = 1
    /\ handlers # {}
    /\ ev.resp \in {"OK", "0"}

----------------------------------------------------------------------------
(* The beginning of a line left by a connection that closes (SpecPartial). *)

\* The step is the disconnect branch run for fd with an unterminated line in
\* its inbuf.
DropsPartialLine(fd) ==
    /\ cur = 0
    /\ fd \in handlers
    /\ fd \notin handlers'
    /\ clients[fd] # <<>>

\* C33: the disconnect of a connection with an unterminated line in its inbuf
\* answers nothing, leaves point_set and the session of another alone, and
\* leaves no inbuf behind; a connection accepted later starts with an empty
\* inbuf, and every line handed to process_line is a line as a peer sent it.
C33_PartialLineDiscarded ==
    [][/\ \A fd \in Fds :
              DropsPartialLine(fd) =>
                  /\ ev' = NoEvent
                  /\ point_set' = point_set
                  /\ points_to_read' = points_to_read
                  /\ newgraph_owner_fd # fd => UNCHANGED shared
                  /\ fd \notin DOMAIN clients'
       /\ \A fd \in handlers' \ handlers : clients'[fd] = <<>>
       /\ LineStep => CurLine \in WholeLines]_vars

\* A connection ended inside a line, and CH of a later connection on the same
\* descriptor number was answered.
C33_Witness ==
    /\ rcvd.partial
    /\ lines = <<LnCH>>
    /\ ev = [fd |-> StreamFd, resp |-> "0"]

----------------------------------------------------------------------------
(* Removal of a descriptor from the reactor (SpecReactor).                 *)

\* The step is line 61 of reactorLoop calling the callback of fd.
Invokes(fd) == thr.pc = "l61" /\ thr'.pc = "l50" /\ cur = fd

\* C34: once removeFdFromReactor(reactor, fd) has returned, the callback of fd
\* is not invoked until fd is added again, whichever thread removed it and
\* wherever the loop was.
C34_RemovedNotInvoked ==
    [][\A fd \in ReactorFds : Invokes(fd) => fd \notin sess.removed]_vars

----------------------------------------------------------------------------
(* stopReactor (FairReactor).                                              *)

\* C35: stopReactor called from the other thread comes to its end and returns
\* 0; once running is false the loop leaves at its next test of the flag, the
\* join has returned only when the loop has, and no callback is invoked after
\* stopReactor has returned.
C35_StopReactorTerminates ==
    /\ (thr.stop = "flagged") ~> (thr.stop = "returned" /\ sess.ret = 0)
    /\ [][(thr.stop # "no" /\ thr.pc = "l18" /\ thr' # thr) => thr'.pc = "exited"]_vars
    /\ [](thr.stop \in {"joined", "returned"} => thr.pc = "exited")
    /\ [][thr.stop = "returned" => ~(\E fd \in ReactorFds : Invokes(fd))]_vars

\* stopReactor has returned 0 after callbacks had added and removed descriptors.
C35_Witness ==
    /\ thr.stop = "returned"
    /\ sess.ret = 0
    /\ sess.removed # {}
    /\ thr.pc = "exited"

----------------------------------------------------------------------------
(* The area monitor (SpecMonitor, FairMonitor).                            *)

\* C36: every CH that is answered is followed in the end by an evaluation of
\* the area by the monitor, wherever the monitor was when the signal was sent.
C36_EveryChIsEvaluated == thr.pending ~> ~thr.pending

\* C37: at_least_100 is true exactly when the area of the hull of point_set is
\* at least 100 (every handler is one step: no command is in progress in any
\* state).
C37_FlagTracksArea ==
    thr.at_least_100 <=> compute_area(compute_convex_hull_deque(point_set)) >= Threshold100

\* C38: the messages of the monitor alternate, beginning with 'At Least 100
\* units belongs to CH'.
C38_MessagesAlternate ==
    \A i \in 1..Len(out) : out[i] = IF i % 2 = 1 THEN MsgAtLeast ELSE MsgNoLonger

\* Both messages were printed, and the first again after them.
C38_Witness == Len(out) = 3 /\ out[3] = MsgAtLeast /\ thr.at_least_100

----------------------------------------------------------------------------
(* The vector, deque and list variants (SpecVariants).                     *)

\* C39: on an empty polygon each compute_area returns 0, and reads no element
\* and divides by nothing to do so.
C39_EmptyAreaIsZero ==
    \A v \in DOMAIN hull :
        hull[v].ret = <<>> => hull[v].area = AreaValue(0)

\* C40: the three implementations return the same sequence of points for the
\* same input.
C40_VariantsAgree ==
    \A v, w \in DOMAIN hull : hull[v].ret = hull[w].ret

\* The three were called on four points of which the hull keeps three.
C40_Witness ==
    /\ DOMAIN hull = {"vector", "deque", "list"}
    /\ Len(point_set) = 4
    /\ Len(hull["list"].ret) = 3
    /\ hull["list"].area.area > 0

====
